---- MODULE Spec2Model ----
(***************************************************************************)
(* Model of the S&C block generator of ride-log-app: the progression rule  *)
(* engine (services._suggest_progression), the block generator             *)
(* (services.create_sc_block) and the relational store it writes           *)
(* (db_store: sc_blocks, sc_weeks, sc_sessions, sc_session_exercises).     *)
(*                                                                         *)
(* Units.  A load is an integer number of tenths of a kilogram (the code   *)
(* rounds every computed load with round(x, 1)); a %1RM is an integer      *)
(* number of thousandths (the code rounds with round(x, 3)).  Python's     *)
(* None is the empty sequence and a present value v is <<v>>.              *)
(***************************************************************************)
EXTENDS Integers, Sequences, FiniteSets, TLC

None == << >>
Some(x) == << x >>
Val(o) == o[1]

Max(a, b) == IF a >= b THEN a ELSE b

(***************************************************************************)
(* Python's round(): round half to even.  n / d with d > 0.                *)
(***************************************************************************)
RoundHalfEven(n, d) ==
    LET q == n \div d
        r == n % d
    IN  IF 2 * r > d \/ (2 * r = d /\ q % 2 = 1) THEN q + 1 ELSE q

(***************************************************************************)
(* Program constants of _suggest_progression.                              *)
(***************************************************************************)
RepCap == 12
RepFloor == 8
LoadStepTenths == 25
PctStepMilli == 20
IsoRepStep == 5

(***************************************************************************)
(* int(round(sets_base * 0.6)).  6 * s / 10 is never a tie, and the float  *)
(* product rounds like the exact quotient.                                 *)
(***************************************************************************)
deload_sets(sets_base) == Max(1, RoundHalfEven(6 * sets_base, 10))

(***************************************************************************)
(* int(round(reps_base * 0.7)).  The float product reps_base * 0.7 falls   *)
(* just below the tie k + 0.5 for the bases listed here (every such base   *)
(* in -50..999), where round() therefore goes down although half-to-even   *)
(* on the exact quotient goes up.                                          *)
(***************************************************************************)
RepsTieBelow == {45, 85, 165, 325, 345, 365, 645, 665, 685, 705, 725}

deload_reps(reps_base) ==
    Max(1, IF reps_base \in RepsTieBelow
           THEN RoundHalfEven(7 * reps_base, 10) - 1
           ELSE RoundHalfEven(7 * reps_base, 10))

(***************************************************************************)
(* round(load_base * 0.9, 1) in tenths and round(pct_base * 0.9, 3) in     *)
(* thousandths.  Exact for every load on the 2.5 kg grid and every load    *)
(* whose tenths do not end in 5, and for every %1RM whose thousandths do   *)
(* not end in 5: the inputs of this model are drawn from those.            *)
(***************************************************************************)
deload_load(load_base) == RoundHalfEven(9 * load_base, 10)
deload_pct(pct_base) == RoundHalfEven(9 * pct_base, 10)

(***************************************************************************)
(* The linear rules: reps_base + (week_no - 1) * step,                     *)
(* round(load_base + (week_no - 1) * 2.5, 1),                              *)
(* round(pct_base + (week_no - 1) * 0.02, 3).                              *)
(***************************************************************************)
linear_reps(reps_base, week_no, step) == reps_base + (week_no - 1) * step

barbell_load_mut(load_base, week_no) == load_base - (week_no - 1) * LoadStepTenths
barbell_load(load_base, week_no) == load_base + (week_no - 1) * LoadStepTenths

barbell_pct(pct_base, week_no) == pct_base + (week_no - 1) * PctStepMilli

(***************************************************************************)
(* _suggest_progression: the week's (sets, reps, load, pct) of one         *)
(* template row.                                                           *)
(***************************************************************************)
_suggest_progression(style, week_no, deload, sets_base, reps_base, load_base, pct_base) ==
    IF deload
    THEN [sets |-> deload_sets(sets_base),
          reps |-> deload_reps(reps_base),
          load |-> IF load_base = None THEN None ELSE Some(deload_load(Val(load_base))),
          pct  |-> IF pct_base = None THEN None ELSE Some(deload_pct(Val(pct_base)))]
    ELSE IF style \in {"isometric", "bodyweight"}
    THEN [sets |-> sets_base, reps |-> linear_reps(reps_base, week_no, IsoRepStep),
          load |-> load_base, pct |-> pct_base]
    ELSE IF style = "conditioning"
    THEN [sets |-> sets_base, reps |-> linear_reps(reps_base, week_no, 1),
          load |-> load_base, pct |-> pct_base]
    ELSE IF style = "db_kb"
    THEN LET reps_t == linear_reps(reps_base, week_no, 1)
             reset  == load_base # None /\ reps_t > RepCap
         IN  [sets |-> sets_base,
              reps |-> IF reset THEN RepFloor ELSE reps_t,
              load |-> IF reset THEN Some(Val(load_base) + LoadStepTenths) ELSE load_base,
              pct  |-> pct_base]
    ELSE IF style = "barbell"
    THEN [sets |-> sets_base, reps |-> reps_base,
          load |-> IF load_base # None
                   THEN Some(barbell_load(Val(load_base), week_no))
                   ELSE load_base,
          pct  |-> IF load_base = None /\ pct_base # None
                   THEN Some(barbell_pct(Val(pct_base), week_no))
                   ELSE pct_base]
    ELSE [sets |-> sets_base, reps |-> linear_reps(reps_base, week_no, 1),
          load |-> load_base, pct |-> pct_base]

(***************************************************************************)
(* Dates.  start_date and week_start are ISO strings in the code; here a   *)
(* date string is the record [y, m, d] of its three fields.                *)
(* date.fromisoformat raises ValueError unless the fields name a day of    *)
(* the calendar; date + timedelta goes through the proleptic ordinal       *)
(* (toordinal / fromordinal), and isoformat writes the fields back.        *)
(***************************************************************************)
IsLeap(y) == (y % 4 = 0 /\ y % 100 # 0) \/ y % 400 = 0

DaysInMonth(y, m) ==
    IF m = 2 THEN (IF IsLeap(y) THEN 29 ELSE 28)
    ELSE IF m \in {4, 6, 9, 11} THEN 30 ELSE 31

RECURSIVE DaysBeforeMonth(_, _)
DaysBeforeMonth(y, m) ==
    IF m <= 1 THEN 0 ELSE DaysBeforeMonth(y, m - 1) + DaysInMonth(y, m - 1)

DaysBeforeYear(y) == (y - 1) * 365 + (y - 1) \div 4 - (y - 1) \div 100 + (y - 1) \div 400

fromisoformat_ok(s) == s.m \in 1..12 /\ s.d \in 1..DaysInMonth(s.y, s.m)

toordinal(dt) == DaysBeforeYear(dt.y) + DaysBeforeMonth(dt.y, dt.m) + dt.d

RECURSIVE YearOfOrdinal(_, _)
YearOfOrdinal(n, y) == IF n > DaysBeforeYear(y + 1) THEN YearOfOrdinal(n, y + 1) ELSE y

RECURSIVE DateInYear(_, _, _)
DateInYear(y, k, m) ==
    IF k > DaysInMonth(y, m)
    THEN DateInYear(y, k - DaysInMonth(y, m), m + 1)
    ELSE [y |-> y, m |-> m, d |-> k]

fromordinal(n) ==
    LET y == YearOfOrdinal(n, Max(1, n \div 366))
    IN  DateInYear(y, n - DaysBeforeYear(y), 1)

\* wk_start = (date.fromisoformat(start_date) + timedelta(days=(wk - 1) * 7)).isoformat()
wk_start_mut(start_date, wk) == fromordinal(toordinal(start_date) + wk * 7)
wk_start(start_date, wk) == fromordinal(toordinal(start_date) + (wk - 1) * 7)

\* is_deload = wk == int(deload_week)
is_deload(wk, deload_week) == wk = deload_week

\* labels = ["A"] if int(sessions_per_week) == 1 else ["A", "B"]
labels_of(sessions_per_week) == IF sessions_per_week = 1 THEN << "A" >> ELSE << "A", "B" >>

\* tpl = template_a if lab == "A" else template_b
tpl_of_mut(lab, template_a, template_b) == template_a
tpl_of(lab, template_a, template_b) == IF lab = "A" THEN template_a ELSE template_b

(***************************************************************************)
(* The exercise catalog (table exercises), as seed() fills it; five of its *)
(* rows, one per progression style the seeded catalog contains.  There is  *)
(* no operation that deletes an exercise.                                  *)
(***************************************************************************)
exercises ==
    (1 :> [name |-> "Bike Erg (High Seat)", category |-> Some("conditioning"),
           implement |-> Some("machine"), notes |-> Some("Store reps as minutes (MVP).")]) @@
    (2 :> [name |-> "Wall Sit", category |-> Some("squat"),
           implement |-> Some("bodyweight"),
           notes |-> Some("Isometric hold; reps stored as seconds.")]) @@
    (3 :> [name |-> "Single-Leg RDL", category |-> Some("hinge"),
           implement |-> Some("dumbbell"), notes |-> None]) @@
    (4 :> [name |-> "Back Squat", category |-> Some("squat"),
           implement |-> Some("barbell"),
           notes |-> Some("Use low-bar or high-bar as per athlete tolerance.")]) @@
    (5 :> [name |-> "Pull-Up", category |-> Some("pull"),
           implement |-> Some("bodyweight"),
           notes |-> Some("Metric recorded as reps, not 1RM.")])

get_exercise(exercise_id) ==
    IF exercise_id \in DOMAIN exercises THEN Some(exercises[exercise_id]) ELSE None

\* (s or "").lower() and the `needle in ...` tests on it: the needles of
\* _parse_exercise_style that occur in the lower-cased string.
NeedlesIn(s) ==
    IF s = None THEN {}
    ELSE CASE Val(s) = "Bike Erg (High Seat)" -> {"bike erg", "erg"}
           [] Val(s) = "Wall Sit" -> {"wall sit"}
           [] Val(s) = "Isometric hold; reps stored as seconds." -> {"isometric"}
           [] Val(s) = "Isometric Split Squat" -> {"isometric"}
           [] Val(s) = "Side Plank" -> {"plank"}
           [] Val(s) = "Hold a plank between sets." -> {"plank"}
           [] Val(s) = "Ski Erg" -> {"erg"}
           [] OTHER -> {}

\* (s or "").lower() of a category or implement: the seeded ones are lower case.
lower(s) == IF s = None THEN "" ELSE Val(s)

_parse_exercise_style_mut(ex_row) ==
    IF ex_row = None THEN "unknown"
    ELSE LET name_l == NeedlesIn(Some(Val(ex_row).name))
             nts    == NeedlesIn(Val(ex_row).notes)
             cat    == lower(Val(ex_row).category)
             impl   == lower(Val(ex_row).implement)
         IN  IF "isometric" \in name_l \/ "isometric" \in nts
                \/ "wall sit" \in name_l \/ "plank" \in name_l
             THEN "isometric"
             ELSE IF impl \in {"dumbbell", "kettlebell", "band"} THEN "db_kb"
             ELSE IF impl \in {"barbell"} THEN "barbell"
             ELSE IF impl \in {"bodyweight"} THEN "bodyweight"
             ELSE IF cat = "conditioning" \/ "bike erg" \in name_l \/ "erg" \in name_l
             THEN "conditioning"
             ELSE "generic"
_parse_exercise_style(ex_row) ==
    IF ex_row = None THEN "unknown"
    ELSE LET name_l == NeedlesIn(Some(Val(ex_row).name))
             nts    == NeedlesIn(Val(ex_row).notes)
             cat    == lower(Val(ex_row).category)
             impl   == lower(Val(ex_row).implement)
         IN  IF "isometric" \in name_l \/ "isometric" \in nts
                \/ "wall sit" \in name_l \/ "plank" \in name_l
             THEN "isometric"
             ELSE IF cat = "conditioning" \/ "bike erg" \in name_l \/ "erg" \in name_l
             THEN "conditioning"
             ELSE IF impl \in {"dumbbell", "kettlebell", "band"} THEN "db_kb"
             ELSE IF impl \in {"barbell"} THEN "barbell"
             ELSE IF impl \in {"bodyweight"} THEN "bodyweight"
             ELSE "generic"

(***************************************************************************)
(* The store.  Every db_store function opens its own connection and        *)
(* commits before it returns, so each call below is one atomic step of the *)
(* store; ids are AUTOINCREMENT keys, never reused.  Tables without        *)
(* deletes are sequences (the id is the index); sc_session_exercises is a  *)
(* set of rows and row_seq its AUTOINCREMENT counter.                      *)
(***************************************************************************)
VARIABLES
    sc_blocks, sc_weeks, sc_sessions, sc_session_exercises, row_seq,
    patients, patient_access_table, coach_patient_access, organization_coaches,
    gen, act, pg,
    norm_strength_standards, call,
    rides, weekly_plan, strava_tokens, strava_synced, patient_profile, strength_estimates,
    op, sync,
    exercises_table, rep_schemes

storeVars == << sc_blocks, sc_weeks, sc_sessions, sc_session_exercises, row_seq >>
accessVars == << patients, patient_access_table, coach_patient_access, organization_coaches >>
vars == << sc_blocks, sc_weeks, sc_sessions, sc_session_exercises, row_seq,
           patients, patient_access_table, coach_patient_access, organization_coaches,
           gen, act, pg, norm_strength_standards, call,
           rides, weekly_plan, strava_tokens, strava_synced, patient_profile,
           strength_estimates, op, sync, exercises_table, rep_schemes >>
estVars == << norm_strength_standards, call >>
dataVars == << rides, weekly_plan, strava_tokens, strava_synced, patient_profile,
               strength_estimates, op >>
libVars == << exercises_table, rep_schemes >>

\* db_store.create_sc_block: INSERT INTO sc_blocks; returns the new id.
create_sc_block(patient_id, start_date, goal, notes, weeks, model, deload_week, sessions_per_week) ==
    Append(sc_blocks, [patient_id |-> patient_id, start_date |-> start_date,
                       weeks |-> weeks, model |-> model, deload_week |-> deload_week,
                       sessions_per_week |-> sessions_per_week, goal |-> goal,
                       notes |-> notes])

WeekIds_mut(block_id, week_no) == { i \in 1..Len(sc_weeks) : sc_weeks[i].week_no = week_no }
WeekIds(block_id, week_no) ==
    { i \in 1..Len(sc_weeks) : sc_weeks[i].block_id = block_id /\ sc_weeks[i].week_no = week_no }

\* db_store.upsert_sc_week: INSERT ... ON CONFLICT(block_id, week_no) DO UPDATE.
upsert_sc_week(block_id, week_no, week_start, focus, deload_flag, notes) ==
    LET row == [block_id |-> block_id, week_no |-> week_no, week_start |-> week_start,
                focus |-> focus, deload_flag |-> IF deload_flag THEN 1 ELSE 0,
                notes |-> notes]
    IN  IF WeekIds(block_id, week_no) = {}
        THEN Append(sc_weeks, row)
        ELSE [i \in 1..Len(sc_weeks) |->
                 IF i \in WeekIds(block_id, week_no) THEN row ELSE sc_weeks[i]]

\* ... SELECT id FROM sc_weeks WHERE block_id=? AND week_no=?  (after the upsert)
upsert_sc_week_id(block_id, week_no) ==
    IF WeekIds(block_id, week_no) = {} THEN Len(sc_weeks) + 1
    ELSE CHOOSE i \in WeekIds(block_id, week_no) : TRUE

SessionIds(week_id, session_label) ==
    { i \in 1..Len(sc_sessions) :
        sc_sessions[i].week_id = week_id /\ sc_sessions[i].session_label = session_label }

\* db_store.upsert_sc_session: INSERT ... ON CONFLICT(week_id, session_label) DO UPDATE.
upsert_sc_session(week_id, session_label, day_hint, notes) ==
    LET row == [week_id |-> week_id, session_label |-> session_label,
                day_hint |-> day_hint, notes |-> notes]
    IN  IF SessionIds(week_id, session_label) = {}
        THEN Append(sc_sessions, row)
        ELSE [i \in 1..Len(sc_sessions) |->
                 IF i \in SessionIds(week_id, session_label) THEN row ELSE sc_sessions[i]]

upsert_sc_session_id(week_id, session_label) ==
    IF SessionIds(week_id, session_label) = {} THEN Len(sc_sessions) + 1
    ELSE CHOOSE i \in SessionIds(week_id, session_label) : TRUE

\* db_store.clear_sc_session_exercises: DELETE FROM sc_session_exercises WHERE session_id = ?
\* table is the content of sc_session_exercises the statement runs on.
clear_sc_session_exercises(table, session_id) ==
    { x \in table : x.session_id # session_id }

\* db_store.add_sc_session_exercise: INSERT of the planned columns; the actual
\* columns take their defaults (NULL, completed_flag 0).  The new id is seq + 1,
\* seq the table's AUTOINCREMENT counter.
add_sc_session_exercise(table, seq, session_id, exercise_id, sets_target, reps_target, pct_1rm_target, load_kg_target, rpe_target, rest_sec_target, intent, notes) ==
    table \cup
        {[id |-> seq + 1, session_id |-> session_id, exercise_id |-> exercise_id,
          sets_target |-> sets_target, reps_target |-> reps_target,
          pct_1rm_target |-> pct_1rm_target, load_kg_target |-> load_kg_target,
          rpe_target |-> rpe_target, rest_sec_target |-> rest_sec_target,
          intent |-> intent, notes |-> notes,
          sets_actual |-> None, reps_actual |-> None, load_kg_actual |-> None,
          completed_flag |-> 0, actual_notes |-> None]}

\* db_store.update_sc_session_exercise_actual: UPDATE ... SET the five actual columns
\* WHERE id = row_id.
update_sc_session_exercise_actual_coalesce(table, row_id, sets_actual, reps_actual, load_kg_actual, completed_flag, actual_notes) ==
    { IF x.id = row_id
      THEN [x EXCEPT !.sets_actual = IF sets_actual = None THEN @ ELSE sets_actual,
                     !.reps_actual = IF reps_actual = None THEN @ ELSE reps_actual,
                     !.load_kg_actual = IF load_kg_actual = None THEN @ ELSE load_kg_actual,
                     !.completed_flag = IF completed_flag THEN 1 ELSE 0,
                     !.actual_notes = IF actual_notes = None THEN @ ELSE actual_notes]
      ELSE x : x \in table }
update_sc_session_exercise_actual_mut(table, row_id, sets_actual, reps_actual, load_kg_actual, completed_flag, actual_notes) ==
    { [x EXCEPT !.sets_actual = sets_actual, !.reps_actual = reps_actual,
                !.load_kg_actual = load_kg_actual,
                !.completed_flag = IF completed_flag THEN 1 ELSE 0,
                !.actual_notes = actual_notes] : x \in table }
update_sc_session_exercise_actual(table, row_id, sets_actual, reps_actual, load_kg_actual, completed_flag, actual_notes) ==
    { IF x.id = row_id
      THEN [x EXCEPT !.sets_actual = sets_actual, !.reps_actual = reps_actual,
                     !.load_kg_actual = load_kg_actual,
                     !.completed_flag = IF completed_flag THEN 1 ELSE 0,
                     !.actual_notes = actual_notes]
      ELSE x : x \in table }

(***************************************************************************)
(* Access control.                                                         *)
(***************************************************************************)
_user_can_access_patient(user_id, role, patient_id) ==
    IF role \notin {"coach", "client"} THEN FALSE
    ELSE IF patient_access_table
    THEN /\ patient_id \in DOMAIN patients
         /\ \/ << user_id, patient_id >> \in coach_patient_access
            \/ /\ patients[patient_id].owner_user_id # None
               /\ << Val(patients[patient_id].owner_user_id), user_id >> \in organization_coaches
    ELSE IF role = "super_admin" THEN << user_id, patient_id >> \in coach_patient_access
    ELSE IF role = "coach" THEN << user_id, patient_id >> \in coach_patient_access
    ELSE /\ patient_id \in DOMAIN patients
         /\ patients[patient_id].owner_user_id = Some(user_id)

_assert_coach_mut(role) == role \in {"coach", "super_admin", "client"}
_assert_coach(role) == role \in {"coach", "super_admin"}

_get_block_patient_id(block_id) ==
    IF block_id \in 1..Len(sc_blocks) THEN Some(sc_blocks[block_id].patient_id) ELSE None

_get_week_patient_id(week_id) ==
    IF week_id \in 1..Len(sc_weeks) THEN _get_block_patient_id(sc_weeks[week_id].block_id)
    ELSE None

_get_session_patient_id(session_id) ==
    IF session_id \in 1..Len(sc_sessions)
    THEN _get_week_patient_id(sc_sessions[session_id].week_id)
    ELSE None

_get_session_exercise_patient_id(row_id) ==
    IF \E x \in sc_session_exercises : x.id = row_id
    THEN _get_session_patient_id((CHOOSE x \in sc_session_exercises : x.id = row_id).session_id)
    ELSE None

\* The outcome of the checks a *_for_user wrapper makes before it writes: "ok" or
\* the exception raised.  owner is the patient id the _get_*_patient_id lookup gave.
WriteCheck(user_id, role, owner) ==
    IF ~_assert_coach(role) THEN "PermissionError"
    ELSE IF owner = None THEN "ValueError"
    ELSE IF ~_user_can_access_patient(user_id, role, Val(owner)) THEN "PermissionError"
    ELSE "ok"

(***************************************************************************)
(* Patient data: rides, weekly_plan, strava_tokens, strava_synced,         *)
(* patient_profile and strength_estimates.  rides has an AUTOINCREMENT id  *)
(* and no delete: a sequence.  The others are sets of rows with a primary  *)
(* key; strava_synced is the set of its keys << patient_id, activity_id >>.*)
(* Distances are in tenths of a kilometre.                                 *)
(***************************************************************************)
add_ride(table, patient_id, ride_date, distance_km, duration_min, rpe, notes) ==
    Append(table, [patient_id |-> patient_id, ride_date |-> ride_date,
                   distance_km |-> distance_km, duration_min |-> duration_min,
                   rpe |-> rpe, notes |-> notes])

\* INSERT ... ON CONFLICT(patient_id, week_start) DO UPDATE SET the other columns.
upsert_week_plan(table, patient_id, week_start, planned_km, planned_hours, phase, notes) ==
    { x \in table : ~(x.patient_id = patient_id /\ x.week_start = week_start) } \cup
        {[patient_id |-> patient_id, week_start |-> week_start, planned_km |-> planned_km,
          planned_hours |-> planned_hours, phase |-> phase, notes |-> notes]}

\* INSERT ... ON CONFLICT(patient_id) DO UPDATE SET the other columns.
save_strava_tokens(table, patient_id, access_token, refresh_token, expires_at, athlete_id, scope) ==
    { x \in table : x.patient_id # patient_id } \cup
        {[patient_id |-> patient_id, access_token |-> access_token,
          refresh_token |-> refresh_token, expires_at |-> expires_at,
          athlete_id |-> athlete_id, scope |-> scope]}

get_strava_tokens(table, patient_id) ==
    IF \E x \in table : x.patient_id = patient_id
    THEN Some(CHOOSE x \in table : x.patient_id = patient_id)
    ELSE None

\* INSERT OR IGNORE INTO strava_synced(patient_id, strava_activity_id)
mark_activity_synced(table, patient_id, activity_id) ==
    table \cup { << patient_id, activity_id >> }

is_activity_synced_mut(table, patient_id, activity_id) == FALSE
is_activity_synced(table, patient_id, activity_id) ==
    << patient_id, activity_id >> \in table

\* INSERT ... ON CONFLICT(patient_id) DO UPDATE SET the other columns.
upsert_patient_profile(table, patient_id, sex, dob, bodyweight_kg, presumed_level) ==
    { x \in table : x.patient_id # patient_id } \cup
        {[patient_id |-> patient_id, sex |-> sex, dob |-> dob,
          bodyweight_kg |-> bodyweight_kg, presumed_level |-> presumed_level]}

StrengthEstimate(patient_id, exercise_id, as_of_date, estimated_1rm_kg, estimated_rel_1rm_bw, level_used, sex_used, age_used, bw_used, method, notes) ==
    [patient_id |-> patient_id, exercise_id |-> exercise_id, as_of_date |-> as_of_date,
     estimated_1rm_kg |-> estimated_1rm_kg, estimated_rel_1rm_bw |-> estimated_rel_1rm_bw,
     level_used |-> level_used, sex_used |-> sex_used, age_used |-> age_used,
     bw_used |-> bw_used, method |-> method, notes |-> notes]

\* INSERT ... ON CONFLICT(patient_id, exercise_id) DO UPDATE SET the other columns;
\* row is the StrengthEstimate built from the arguments.
upsert_strength_estimate_mut(table, row) == table \cup { row }
upsert_strength_estimate(table, row) ==
    { x \in table : ~(x.patient_id = row.patient_id /\ x.exercise_id = row.exercise_id) }
        \cup { row }

\* _assert_patient_access: TRUE when it returns, FALSE when it raises PermissionError.
_assert_patient_access_mut(user_id, role, patient_id) == TRUE
_assert_patient_access(user_id, role, patient_id) ==
    _user_can_access_patient(user_id, role, patient_id)

(***************************************************************************)
(* Normative strength standards, the e1RM estimator and the unilateral     *)
(* scaler.  Thresholds and ratios are integers in 1/10000 of bodyweight    *)
(* (pull-up bands hold rep counts in the same REAL columns), bodyweight is *)
(* in tenths of a kilogram, so the estimator's e1RM is in 1/100000 kg.     *)
(* The scaler takes an e1RM in tenths of a kilogram and a fraction in      *)
(* hundredths: its result is in thousandths of a kilogram.  The table      *)
(* norm_strength_standards has no delete: it is a sequence, the id of a    *)
(* row is its index.                                                       *)
(***************************************************************************)
Band(exercise_id, sex, age_min, age_max, metric, poor, fair, good, excellent) ==
    [exercise_id |-> exercise_id, sex |-> sex, age_min |-> age_min, age_max |-> age_max,
     metric |-> metric, poor |-> poor, fair |-> fair, good |-> good,
     excellent |-> excellent]

\* add_age_bands of seed(): the 18-39 band as given, 40-54 and 55-65 derived from it
\* (x 0.90 and x 0.80 for rel_1rm_bw; reps minus 1, 1, 1, 2 and 2, 2, 2, 3 otherwise).
add_age_bands(ex_id, sex, metric, p, f, g, e) ==
    IF metric = "rel_1rm_bw"
    THEN << Band(ex_id, sex, 18, 39, metric, p, f, g, e),
            Band(ex_id, sex, 40, 54, metric, (p * 9) \div 10, (f * 9) \div 10,
                 (g * 9) \div 10, (e * 9) \div 10),
            Band(ex_id, sex, 55, 65, metric, (p * 8) \div 10, (f * 8) \div 10,
                 (g * 8) \div 10, (e * 8) \div 10) >>
    ELSE << Band(ex_id, sex, 18, 39, metric, p, f, g, e),
            Band(ex_id, sex, 40, 54, metric, Max(0, p - 10000), Max(0, f - 10000),
                 Max(0, g - 10000), Max(0, e - 20000)),
            Band(ex_id, sex, 55, 65, metric, Max(0, p - 20000), Max(0, f - 20000),
                 Max(0, g - 20000), Max(0, e - 30000)) >>

\* The bands seed() stores for Back Squat (male, female) and Pull-Up (male).
SeededNorms ==
    add_age_bands(4, "male", "rel_1rm_bw", 8000, 10000, 12000, 15000) \o
    add_age_bands(5, "male", "pullup_reps", 20000, 50000, 100000, 150000) \o
    add_age_bands(4, "female", "rel_1rm_bw", 5000, 7000, 9000, 12000)

\* db_store.upsert_norm_standard: a plain INSERT (no uniqueness, no check of the
\* thresholds or of the ages); the foreign key on exercise_id makes it fail for an
\* exercise the catalog does not have.
upsert_norm_standard(table, band) ==
    IF band.exercise_id \in DOMAIN exercises THEN Append(table, band) ELSE table

\* WHERE exercise_id = ? AND sex = ? AND metric = ? AND age_min <= ? AND age_max >= ?
NormMatches(table, exercise_id, sex, age, metric) ==
    { i \in 1..Len(table) :
        /\ table[i].exercise_id = exercise_id /\ table[i].sex = sex
        /\ table[i].metric = metric
        /\ table[i].age_min <= age /\ table[i].age_max >= age }

\* db_store.get_norm_standard: ORDER BY age_min DESC LIMIT 1.  The rows the query
\* may return: SQL leaves the order of rows with equal age_min open.  None (no row)
\* when nothing matches.
get_norm_standard_mut(table, exercise_id, sex, age, metric) ==
    LET m == NormMatches(table, exercise_id, sex, age, metric)
    IN  IF m = {} THEN { None }
        ELSE { Some(table[i]) : i \in { i \in m : \A j \in m : table[j].age_min >= table[i].age_min } }
get_norm_standard(table, exercise_id, sex, age, metric) ==
    LET m == NormMatches(table, exercise_id, sex, age, metric)
    IN  IF m = {} THEN { None }
        ELSE { Some(table[i]) : i \in { i \in m : \A j \in m : table[j].age_min <= table[i].age_min } }

\* str.lower() and str.strip() on the strings of this model.
str_lower(s) ==
    CASE s = "Expert" -> "expert"
      [] s = "Male" -> "male"
      [] s = " BSS " -> " bss "
      [] OTHER -> s

str_strip(s) ==
    CASE s = " bss " -> "bss"
      [] s = " BSS " -> "BSS"
      [] OTHER -> s

\* (level or "intermediate").lower(); level is None or Some(string).
level_key(level) ==
    str_lower(IF level = None \/ Val(level) = "" THEN "intermediate" ELSE Val(level))

_level_to_target_ratio_mut(poor, fair, good, excellent, level) ==
    LET lvl == level_key(level)
    IN  IF lvl = "novice" THEN fair
        ELSE IF lvl = "intermediate" THEN (fair + good) \div 2
        ELSE IF lvl = "advanced" THEN good
        ELSE IF lvl = "expert" THEN (good + excellent) \div 2
        ELSE fair
\* The thresholds of this model are multiples of 10, so the halves are exact.
_level_to_target_ratio(poor, fair, good, excellent, level) ==
    LET lvl == level_key(level)
    IN  IF lvl = "novice" THEN fair
        ELSE IF lvl = "intermediate" THEN (fair + good) \div 2
        ELSE IF lvl = "advanced" THEN good
        ELSE IF lvl = "expert" THEN (good + excellent) \div 2
        ELSE (fair + good) \div 2

\* not patient_bw_kg or patient_bw_kg <= 0
bw_missing_mut(patient_bw_kg) == patient_bw_kg = None
bw_missing(patient_bw_kg) ==
    patient_bw_kg = None \/ Val(patient_bw_kg) = 0 \/ Val(patient_bw_kg) <= 0

EstimateResult(e1rm, rel, method, band_used) ==
    [estimated_1rm_kg |-> e1rm, estimated_rel_1rm_bw |-> rel, method |-> method,
     band_used |-> band_used]

\* The part of estimate_e1rm_kg_for_exercise after the lookup; norm is the row
\* get_norm_standard returned, or None.
estimate_from_norm(norm, patient_bw_kg, presumed_level) ==
    IF norm = None
    THEN EstimateResult(None, None, "no_norm_found", None)
    ELSE LET n          == Val(norm)
             target_rel == _level_to_target_ratio(n.poor, n.fair, n.good, n.excellent,
                                                  presumed_level)
         IN  EstimateResult(Some(target_rel * Val(patient_bw_kg)), Some(target_rel),
                            "norm_level_band_v1", Some(<< n.age_min, n.age_max >>))

\* db_store.estimate_e1rm_kg_for_exercise: the triples << looked_up, norm, result >> a
\* call can end with; looked_up tells whether it reached get_norm_standard, norm is the
\* row that returned (None when it returned no row or was not reached).
estimate_e1rm_kg_for_exercise(table, patient_sex, patient_age, patient_bw_kg, presumed_level, exercise_id, metric) ==
    IF metric = "pullup_reps"
    THEN { << FALSE, None, EstimateResult(None, None, "not_applicable_pullup", None) >> }
    ELSE IF bw_missing(patient_bw_kg)
    THEN { << FALSE, None, EstimateResult(None, None, "missing_bodyweight", None) >> }
    ELSE { << TRUE, norm, estimate_from_norm(norm, patient_bw_kg, presumed_level) >> :
             norm \in get_norm_standard(table, exercise_id, patient_sex, patient_age, metric) }

\* The base fraction of estimate_unilateral_from_bilateral, in hundredths.
unilateral_base_mut(mv, lvl) ==
    IF mv \in {"bss", "stepup", "sl_rdl"}
    THEN (IF lvl = "novice" THEN 35 ELSE IF lvl = "advanced" THEN 45
          ELSE IF lvl = "expert" THEN 50 ELSE 40)
    ELSE 35
unilateral_base(mv, lvl) ==
    IF mv \in {"bss", "stepup"}
    THEN (IF lvl = "novice" THEN 35 ELSE IF lvl = "advanced" THEN 45
          ELSE IF lvl = "expert" THEN 50 ELSE 40)
    ELSE IF mv \in {"sl_rdl"}
    THEN (IF lvl = "novice" THEN 30 ELSE IF lvl = "advanced" THEN 40
          ELSE IF lvl = "expert" THEN 45 ELSE 35)
    ELSE 35

\* movement and presumed_level are None or Some(string).
estimate_unilateral_from_bilateral_mut(bilateral_e1rm_kg, movement, presumed_level) ==
    IF bilateral_e1rm_kg = None THEN None
    ELSE Some(Val(bilateral_e1rm_kg) *
              (100 + unilateral_base(str_strip(str_lower(IF movement = None THEN ""
                                                          ELSE Val(movement))),
                                     level_key(presumed_level))))
estimate_unilateral_from_bilateral(bilateral_e1rm_kg, movement, presumed_level) ==
    IF bilateral_e1rm_kg = None THEN None
    ELSE Some(Val(bilateral_e1rm_kg) *
              unilateral_base(str_strip(str_lower(IF movement = None THEN ""
                                                  ELSE Val(movement))),
                              level_key(presumed_level)))

(***************************************************************************)
(* The library tables seed() writes: exercises_table (the table exercises; *)
(* name UNIQUE, no delete: a sequence, the id is the index) and            *)
(* rep_schemes (no key but the id).  Of an exercise the model keeps the    *)
(* columns the classification reads, of a rep scheme goal, phase and the   *)
(* rep and set ranges.                                                     *)
(***************************************************************************)
\* INSERT ... ON CONFLICT(name) DO UPDATE SET the other columns.
upsert_exercise(table, name, category, implement, notes) ==
    LET row == [name |-> name, category |-> category, implement |-> implement,
                notes |-> notes]
    IN  IF \E i \in 1..Len(table) : table[i].name = name
        THEN [i \in 1..Len(table) |-> IF table[i].name = name THEN row ELSE table[i]]
        ELSE Append(table, row)

\* A plain INSERT.
upsert_rep_scheme(table, goal, phase, reps_min, reps_max, sets_min, sets_max) ==
    Append(table, [goal |-> goal, phase |-> phase, reps_min |-> reps_min,
                   reps_max |-> reps_max, sets_min |-> sets_min, sets_max |-> sets_max])

\* SELECT ... WHERE goal = ? ORDER BY id ASC: the ids of the rows.
list_rep_schemes(table, goal) == { i \in 1..Len(table) : table[i].goal = goal }

\* str(row[2] or "") == str(phase or ""); a phase is None or Some(string).
phase_str(phase) == IF phase = None THEN "" ELSE Val(phase)

_ensure_rep_scheme_mut(table, goal, phase, reps_min, reps_max, sets_min, sets_max) ==
    upsert_rep_scheme(table, goal, phase, reps_min, reps_max, sets_min, sets_max)
_ensure_rep_scheme(table, goal, phase, reps_min, reps_max, sets_min, sets_max) ==
    IF \E i \in list_rep_schemes(table, goal) : phase_str(table[i].phase) = phase_str(phase)
    THEN table
    ELSE upsert_rep_scheme(table, goal, phase, reps_min, reps_max, sets_min, sets_max)

\* seed(): the upsert_exercise calls for the five exercises of the catalog above, in
\* the order seed() makes them (Single-Leg RDL is upserted twice, with different notes).
SeedExercise(name, category, implement, notes) ==
    [name |-> name, category |-> category, implement |-> implement, notes |-> notes]

SeedExerciseCalls ==
    << SeedExercise("Bike Erg (High Seat)", Some("conditioning"), Some("machine"),
                    Some("Store reps as minutes (MVP).")),
       SeedExercise("Wall Sit", Some("squat"), Some("bodyweight"),
                    Some("Isometric hold; reps stored as seconds.")),
       SeedExercise("Single-Leg RDL", Some("hinge"), Some("dumbbell"), Some("Reps=count.")),
       SeedExercise("Back Squat", Some("squat"), Some("barbell"),
                    Some("Use low-bar or high-bar as per athlete tolerance.")),
       SeedExercise("Pull-Up", Some("pull"), Some("bodyweight"),
                    Some("Metric recorded as reps, not 1RM.")),
       SeedExercise("Single-Leg RDL", Some("hinge"), Some("dumbbell"), None) >>

\* Call k of SeedExerciseCalls on the table.
seed_exercise(table, k) ==
    upsert_exercise(table, SeedExerciseCalls[k].name, SeedExerciseCalls[k].category,
                    SeedExerciseCalls[k].implement, SeedExerciseCalls[k].notes)

RECURSIVE seed_exercises_upto(_, _)
seed_exercises_upto(table, k) ==
    IF k = 0 THEN table ELSE seed_exercise(seed_exercises_upto(table, k - 1), k)

seed_exercises(table) == seed_exercises_upto(table, Len(SeedExerciseCalls))

\* seed(): the four _ensure_rep_scheme calls.
SeedRepSchemeCalls ==
    << [goal |-> "endurance", phase |-> Some("base"), reps_min |-> 12, reps_max |-> 20,
        sets_min |-> 2, sets_max |-> 4],
       [goal |-> "hypertrophy", phase |-> Some("base"), reps_min |-> 8, reps_max |-> 12,
        sets_min |-> 3, sets_max |-> 5],
       [goal |-> "strength", phase |-> Some("build"), reps_min |-> 3, reps_max |-> 6,
        sets_min |-> 3, sets_max |-> 6],
       [goal |-> "power", phase |-> Some("peak"), reps_min |-> 2, reps_max |-> 5,
        sets_min |-> 3, sets_max |-> 6] >>

seed_rep_scheme(table, k) ==
    _ensure_rep_scheme(table, SeedRepSchemeCalls[k].goal, SeedRepSchemeCalls[k].phase,
                       SeedRepSchemeCalls[k].reps_min, SeedRepSchemeCalls[k].reps_max,
                       SeedRepSchemeCalls[k].sets_min, SeedRepSchemeCalls[k].sets_max)

RECURSIVE seed_rep_schemes_upto(_, _)
seed_rep_schemes_upto(table, k) ==
    IF k = 0 THEN table ELSE seed_rep_scheme(seed_rep_schemes_upto(table, k - 1), k)

seed_rep_schemes(table) == seed_rep_schemes_upto(table, Len(SeedRepSchemeCalls))

\* seed(): if count_norm_rows() > 0: return; otherwise the add_age_bands calls.
seed_norms(table) == IF Len(table) > 0 THEN table ELSE SeededNorms

(***************************************************************************)
(* Calls of the estimator and the scaler, and writes to the norm table.    *)
(* call holds the call made since the table was last written, with its     *)
(* arguments and what it returned; a write to the table clears it.         *)
(***************************************************************************)
MaxNormUpserts == 2

\* Bands a caller of upsert_norm_standard may pass: one that spans the seeded squat
\* bands, one that starts where a seeded band starts, one whose thresholds are not in
\* order, one for an exercise the catalog does not have.
NormInputs ==
    { Band(4, "male", 18, 65, "rel_1rm_bw", 5000, 6000, 7000, 8000),
      Band(4, "male", 40, 60, "rel_1rm_bw", 7000, 9200, 11000, 14000),
      Band(3, "male", 18, 39, "rel_1rm_bw", 4000, 8000, 6000, 10000),
      Band(99, "male", 18, 39, "rel_1rm_bw", 4000, 6000, 8000, 10000) }

Sexes == {"male", "female", "Male"}
Ages == {17, 18, 45, 54, 66}
Bodyweights == {None, Some(0), Some(-50), Some(800)}
Levels == {None, Some(""), Some("novice"), Some("intermediate"), Some("advanced"),
           Some("expert"), Some("Expert"), Some("elite")}
Metrics == {"rel_1rm_bw", "pullup_reps"}
NormExercises == {3, 4, 5}
Movements == {None, Some("bss"), Some("stepup"), Some("sl_rdl"), Some(" BSS "),
              Some("bulgarian_split_squat"), Some("step_up"), Some("single_leg_rdl")}
BilateralE1rms == {None, Some(0), Some(880), Some(1000)}

EstimateArgs ==
    [patient_sex : Sexes, patient_age : Ages, patient_bw_kg : Bodyweights,
     presumed_level : Levels, exercise_id : NormExercises, metric : Metrics]

ScaleArgs ==
    [bilateral_e1rm_kg : BilateralE1rms, movement : Movements, presumed_level : Levels]

IdleCall == [kind |-> "idle", args |-> << >>, looked_up |-> FALSE, norm |-> None,
             result |-> << >>]

InitEst ==
    /\ norm_strength_standards = SeededNorms
    /\ call = IdleCall

UpsertNorm ==
    /\ Len(norm_strength_standards) < Len(SeededNorms) + MaxNormUpserts
    /\ \E band \in NormInputs :
          norm_strength_standards' = upsert_norm_standard(norm_strength_standards, band)
    /\ call' = IdleCall
    /\ UNCHANGED << storeVars, accessVars, gen, act, pg, dataVars, sync, libVars >>

Estimate ==
    /\ call.kind = "idle"
    /\ \E a \in EstimateArgs :
          \E r \in estimate_e1rm_kg_for_exercise(norm_strength_standards, a.patient_sex,
                       a.patient_age, a.patient_bw_kg, a.presumed_level, a.exercise_id,
                       a.metric) :
              call' = [kind |-> "estimate", args |-> a, looked_up |-> r[1], norm |-> r[2],
                       result |-> r[3]]
    /\ UNCHANGED << storeVars, accessVars, gen, act, pg, norm_strength_standards, dataVars, sync, libVars >>

Scale ==
    /\ call.kind = "idle"
    /\ \E a \in ScaleArgs :
          call' = [kind |-> "scale", args |-> a, looked_up |-> FALSE, norm |-> None,
                   result |-> estimate_unilateral_from_bilateral(a.bilateral_e1rm_kg,
                                  a.movement, a.presumed_level)]
    /\ UNCHANGED << storeVars, accessVars, gen, act, pg, norm_strength_standards, dataVars, sync, libVars >>

(***************************************************************************)
(* Requests.  A template row is the dict services.create_sc_block reads:   *)
(* exercise_id (None for a row that names no exercise), sets, reps, pct,   *)
(* load.                                                                   *)
(***************************************************************************)
Row(exercise_id, sets, reps, pct, load) ==
    [exercise_id |-> exercise_id, sets |-> sets, reps |-> reps, pct |-> pct, load |-> load]

\* Back Squat planned by %1RM only.
TplSquatPct == << Row(Some(4), 3, 5, Some(700), None) >>
\* The same dumbbell exercise twice, at the rep cap.
TplTwice == << Row(Some(3), 3, 12, None, Some(200)), Row(Some(3), 3, 12, None, Some(200)) >>
\* A row that names no exercise, then a wall sit.
TplGap == << Row(None, 3, 10, None, None), Row(Some(2), 3, 30, None, None) >>
\* A loaded squat, then an exercise id the catalog does not have.
TplMissing == << Row(Some(4), 4, 5, None, Some(600)), Row(Some(99), 3, 8, None, None) >>

TemplatePairs ==
    { << TplSquatPct, TplTwice >>, << TplGap, TplMissing >>, << TplTwice, << >> >> }

MaxWeeks == 2
SessionsPerWeekValues == {1, 2, 3}
StartDates ==
    { [y |-> 2024, m |-> 2, d |-> 26], [y |-> 2025, m |-> 12, d |-> 29],
      [y |-> 2025, m |-> 2, d |-> 30] }
Users == { << "coach1", "coach" >>, << "owner1", "super_admin" >>, << "owner1", "client" >> }

GenArgs ==
    [user : Users, patient_id : {1}, start_date : StartDates, goal : {"hybrid"},
     weeks : 0..MaxWeeks, deload_week : 0..(MaxWeeks + 1),
     sessions_per_week : SessionsPerWeekValues, templates : TemplatePairs]

NoArgs == [user |-> << "", "" >>, patient_id |-> 0, start_date |-> [y |-> 1, m |-> 1, d |-> 1],
           goal |-> "", weeks |-> 0, deload_week |-> 0, sessions_per_week |-> 0,
           templates |-> << << >>, << >> >>]

IdleGen == [pc |-> "idle", args |-> NoArgs, block_id |-> 0, wk |-> 0, week_id |-> 0,
            li |-> 0, sess_id |-> 0, ri |-> 0, err |-> ""]

Actual(sets_actual, reps_actual, load_kg_actual, completed_flag, actual_notes) ==
    [sets_actual |-> sets_actual, reps_actual |-> reps_actual,
     load_kg_actual |-> load_kg_actual, completed_flag |-> completed_flag,
     actual_notes |-> actual_notes]

ActualValues ==
    { Actual(Some(3), Some(5), Some(600), TRUE, Some("felt strong")),
      Actual(Some(-1), None, Some(-25), FALSE, None) }

NoActual == Actual(None, None, None, FALSE, None)

IdleAct == [pc |-> "idle", user |-> << "", "" >>, row_id |-> 0, values |-> NoActual, err |-> ""]

(***************************************************************************)
(* Calls of the patient-level *_for_user wrappers.  op is the call made:   *)
(* its name, caller, patient, arguments and how it ended.                  *)
(***************************************************************************)
\* Patient ids a request may name: the patient and one that does not exist.
PatientIds == { 1, 2 }

RideValues ==
    { [ride_date |-> "2025-06-01", distance_km |-> 425, duration_min |-> 95,
       rpe |-> Some(6), notes |-> None] }
WeekPlanValues ==
    { [week_start |-> "2025-06-02", planned_km |-> Some(1200), planned_hours |-> None,
       phase |-> Some("base"), notes |-> None] }
TokenValues ==
    { [access_token |-> "at1", refresh_token |-> "rt1", expires_at |-> 1750000000,
       athlete_id |-> Some(77), scope |-> Some("read,activity:read_all")] }
ActivityIds == { 9001, 9002 }
ProfileValues ==
    { [sex |-> Some("male"), dob |-> Some("1985-03-01"), bodyweight_kg |-> Some(800),
       presumed_level |-> Some("intermediate")] }
\* What the app saves after an estimate: one from a norm band, one with no norm found.
EstimateValues ==
    { [as_of_date |-> "2025-06-01", estimated_1rm_kg |-> Some(8800000),
       estimated_rel_1rm_bw |-> Some(11000), level_used |-> "intermediate",
       sex_used |-> "male", age_used |-> 40, bw_used |-> Some(800),
       method |-> "norm_level_band_v1", notes |-> Some("band 40-54")],
      [as_of_date |-> "2025-07-01", estimated_1rm_kg |-> None,
       estimated_rel_1rm_bw |-> None, level_used |-> "novice",
       sex_used |-> "male", age_used |-> 40, bw_used |-> None,
       method |-> "no_norm_found", notes |-> None] }
EstimateExercises == { 4, 5, 99 }

IdleOp == [pc |-> "idle", name |-> "", user |-> << "", "" >>, patient_id |-> 0,
           args |-> << >>, err |-> ""]

OpReturned(name, user, patient_id, args) ==
    [pc |-> "returned", name |-> name, user |-> user, patient_id |-> patient_id,
     args |-> args, err |-> ""]

OpRaised(name, user, patient_id, args, err) ==
    [pc |-> "raised", name |-> name, user |-> user, patient_id |-> patient_id,
     args |-> args, err |-> err]

(***************************************************************************)
(* Strava.  What list_activities returns for the patient's athlete within  *)
(* the days_back window: one page (fewer than per_page = 50 activities),   *)
(* then an empty page.  Distances are in metres, times in seconds.  The    *)
(* stored token does not expire within a run (ensure_fresh_token returns   *)
(* it unchanged).                                                          *)
(***************************************************************************)
Activity(id, sport_type, name, start_date_local, distance, elapsed_time) ==
    [id |-> id, sport_type |-> sport_type, name |-> name,
     start_date_local |-> start_date_local, distance |-> distance,
     elapsed_time |-> elapsed_time]

StravaFeed ==
    << Activity(9001, "Ride", "Morning Ride", "2025-06-01", 42500, 5730),
       Activity(9002, "Run", "Lunch Run", "2025-06-02", 8000, 2400),
       Activity(9003, "VirtualRide", "Zwift", "2025-06-03", 30250, 3600) >>

RideSports == { "Ride", "VirtualRide", "EBikeRide", "GravelRide", "MountainBikeRide" }

SyncRuns == { "s1", "s2" }

IdleSync == [pc |-> "idle", user |-> << "", "" >>, patient_id |-> 0, i |-> 0,
             imported |-> 0, err |-> ""]

(***************************************************************************)
(* Initial state: init_db() and seed() have run, one patient owned by      *)
(* owner1, coach1 a coach of owner1's organization.  init_db never creates *)
(* the table patient_access, which a deployment may or may not have; the   *)
(* direct grant coach_patient_access(coach1, 1) may or may not exist.      *)
(***************************************************************************)
InitStore ==
    /\ sc_blocks = << >>
    /\ sc_weeks = << >>
    /\ sc_sessions = << >>
    /\ sc_session_exercises = {}
    /\ row_seq = 0

InitAccess ==
    /\ patients = (1 :> [owner_user_id |-> Some("owner1")])
    /\ patient_access_table \in BOOLEAN
    /\ coach_patient_access \in { {}, { << "coach1", 1 >> } }
    /\ organization_coaches = { << "owner1", "coach1" >> }

\* No patient data yet, no call made.
InitData ==
    /\ rides = << >>
    /\ weekly_plan = {}
    /\ strava_tokens = {}
    /\ strava_synced = {}
    /\ patient_profile = {}
    /\ strength_estimates = {}
    /\ op = IdleOp

\* seed() has run on the empty tables.
InitLib ==
    /\ exercises_table = seed_exercises(<< >>)
    /\ rep_schemes = seed_rep_schemes(<< >>)

NoProg == [style |-> "unknown", sets |-> 1, reps |-> 1, load |-> None, pct |-> None,
           deload_week |-> 0, out |-> << >>]

Init ==
    /\ InitStore
    /\ InitAccess
    /\ gen = [c \in {"g1"} |-> IdleGen]
    /\ act = [u \in {"a1"} |-> IdleAct]
    /\ pg = NoProg
    /\ InitEst
    /\ InitData
    /\ InitLib
    /\ sync = [r \in SyncRuns |-> IdleSync]

(***************************************************************************)
(* services.create_sc_block, one step per store call.  pc is the call the  *)
(* request makes next: "week" (upsert_sc_week_for_user of week wk),        *)
(* "session" (upsert_sc_session_for_user of label li), "clear"             *)
(* (clear_sc_session_exercises_for_user), "row" (add_sc_session_exercise_  *)
(* for_user of template row ri); "returned" and "raised" end it.           *)
(***************************************************************************)
Raise(g, e) == [g EXCEPT !.pc = "raised", !.err = e]

\* for row in tpl: if exercise_id is None: continue  -- the next row at or after i
\* that names an exercise, 0 when the template is exhausted.
RECURSIVE NextRow(_, _)
NextRow(tpl, i) ==
    IF i > Len(tpl) THEN 0
    ELSE IF tpl[i].exercise_id = None THEN NextRow(tpl, i + 1)
    ELSE i

CurTpl(g) ==
    tpl_of(labels_of(g.args.sessions_per_week)[g.li], g.args.templates[1], g.args.templates[2])

\* The loops' control after the rows of session li of week wk are done.
AfterSession(g) ==
    IF g.li < Len(labels_of(g.args.sessions_per_week))
    THEN [g EXCEPT !.pc = "session", !.li = g.li + 1]
    ELSE IF g.wk < g.args.weeks
    THEN [g EXCEPT !.pc = "week", !.wk = g.wk + 1]
    ELSE [g EXCEPT !.pc = "returned"]

\* The loops' control after template row i - 1 of the current session.
AfterRow(g, i) ==
    IF NextRow(CurTpl(g), i) = 0 THEN AfterSession(g)
    ELSE [g EXCEPT !.pc = "row", !.ri = NextRow(CurTpl(g), i)]

BeginWith(c, a) ==
    LET chk == WriteCheck(a.user[1], a.user[2], Some(a.patient_id))
    IN  IF chk # "ok"
        THEN /\ gen' = [gen EXCEPT ![c] = Raise([@ EXCEPT !.args = a], chk)]
             /\ UNCHANGED storeVars
        ELSE /\ sc_blocks' = create_sc_block(a.patient_id, a.start_date, a.goal, None,
                                             a.weeks, "hybrid_v1", a.deload_week,
                                             a.sessions_per_week)
             /\ gen' = [gen EXCEPT ![c] =
                           [@ EXCEPT !.args = a, !.block_id = Len(sc_blocks) + 1,
                                     !.wk = 1,
                                     !.pc = IF a.weeks >= 1 THEN "week" ELSE "returned"]]
             /\ UNCHANGED << sc_weeks, sc_sessions, sc_session_exercises, row_seq >>

\* A request arrives with arguments drawn from requests.
Begin(c, requests) ==
    /\ gen[c].pc = "idle"
    /\ \E a \in requests : BeginWith(c, a)
    /\ UNCHANGED << accessVars, act, pg, estVars, dataVars, sync, libVars >>

StepWeek(c) ==
    /\ gen[c].pc = "week"
    /\ LET g   == gen[c]
           a   == g.args
           chk == WriteCheck(a.user[1], a.user[2], _get_block_patient_id(g.block_id))
           dl  == is_deload(g.wk, a.deload_week)
       IN  IF ~fromisoformat_ok(a.start_date)
           THEN gen' = [gen EXCEPT ![c] = Raise(g, "ValueError")] /\ UNCHANGED storeVars
           ELSE IF chk # "ok"
           THEN gen' = [gen EXCEPT ![c] = Raise(g, chk)] /\ UNCHANGED storeVars
           ELSE /\ sc_weeks' = upsert_sc_week(g.block_id, g.wk, wk_start(a.start_date, g.wk),
                                              IF dl THEN "deload" ELSE a.goal, dl, None)
                /\ gen' = [gen EXCEPT ![c] =
                              [g EXCEPT !.week_id = upsert_sc_week_id(g.block_id, g.wk),
                                        !.li = 1, !.pc = "session"]]
                /\ UNCHANGED << sc_blocks, sc_sessions, sc_session_exercises, row_seq >>
    /\ UNCHANGED << accessVars, act, pg, estVars, dataVars, sync, libVars >>

StepSession(c) ==
    /\ gen[c].pc = "session"
    /\ LET g   == gen[c]
           a   == g.args
           lab == labels_of(a.sessions_per_week)[g.li]
           chk == WriteCheck(a.user[1], a.user[2], _get_week_patient_id(g.week_id))
       IN  IF chk # "ok"
           THEN gen' = [gen EXCEPT ![c] = Raise(g, chk)] /\ UNCHANGED storeVars
           ELSE /\ sc_sessions' = upsert_sc_session(g.week_id, lab, None, None)
                /\ gen' = [gen EXCEPT ![c] =
                              [g EXCEPT !.sess_id = upsert_sc_session_id(g.week_id, lab),
                                        !.pc = "clear"]]
                /\ UNCHANGED << sc_blocks, sc_weeks, sc_session_exercises, row_seq >>
    /\ UNCHANGED << accessVars, act, pg, estVars, dataVars, sync, libVars >>

StepClear(c) ==
    /\ gen[c].pc = "clear"
    /\ LET g   == gen[c]
           a   == g.args
           chk == WriteCheck(a.user[1], a.user[2], _get_session_patient_id(g.sess_id))
       IN  IF chk # "ok"
           THEN gen' = [gen EXCEPT ![c] = Raise(g, chk)] /\ UNCHANGED storeVars
           ELSE /\ sc_session_exercises' = clear_sc_session_exercises(sc_session_exercises, g.sess_id)
                /\ gen' = [gen EXCEPT ![c] = AfterRow(g, 1)]
                /\ UNCHANGED << sc_blocks, sc_weeks, sc_sessions, row_seq >>
    /\ UNCHANGED << accessVars, act, pg, estVars, dataVars, sync, libVars >>

\* One pass of the row loop's body for a template row that names an exercise in the
\* catalog: look the exercise up, derive its style, compute the week's targets, insert.
add_target_row(table, seq, sess_id, row, wk, deload) ==
    LET exid  == Val(row.exercise_id)
        style == _parse_exercise_style(get_exercise(exid))
        t     == _suggest_progression(style, wk, deload, row.sets, row.reps, row.load, row.pct)
    IN  add_sc_session_exercise(table, seq, sess_id, exid, t.sets, t.reps, t.pct, t.load,
                                None, None, None, << "Auto-suggest", style >>)

StepRow(c) ==
    /\ gen[c].pc = "row"
    /\ LET g   == gen[c]
           a   == g.args
           row == CurTpl(g)[g.ri]
           chk == WriteCheck(a.user[1], a.user[2], _get_session_patient_id(g.sess_id))
       IN  IF chk # "ok"
           THEN gen' = [gen EXCEPT ![c] = Raise(g, chk)] /\ UNCHANGED storeVars
           ELSE IF Val(row.exercise_id) \notin DOMAIN exercises
           \* FOREIGN KEY(exercise_id) REFERENCES exercises(id), PRAGMA foreign_keys = ON
           THEN gen' = [gen EXCEPT ![c] = Raise(g, "IntegrityError")] /\ UNCHANGED storeVars
           ELSE /\ sc_session_exercises' =
                       add_target_row(sc_session_exercises, row_seq, g.sess_id, row, g.wk,
                                      is_deload(g.wk, a.deload_week))
                /\ row_seq' = row_seq + 1
                /\ gen' = [gen EXCEPT ![c] = AfterRow(g, g.ri + 1)]
                /\ UNCHANGED << sc_blocks, sc_weeks, sc_sessions >>
    /\ UNCHANGED << accessVars, act, pg, estVars, dataVars, sync, libVars >>

(***************************************************************************)
(* services.update_sc_actuals -> update_sc_session_exercise_actual_for_user *)
(***************************************************************************)
UpdateActualWith(u, user, row_id, v) ==
    LET owner == _get_session_exercise_patient_id(row_id)
        req   == [act[u] EXCEPT !.user = user, !.row_id = row_id, !.values = v]
    IN  IF owner = None
        THEN /\ act' = [act EXCEPT ![u] = [req EXCEPT !.pc = "raised", !.err = "ValueError"]]
             /\ UNCHANGED sc_session_exercises
        ELSE IF ~_user_can_access_patient(user[1], user[2], Val(owner))
        THEN /\ act' = [act EXCEPT ![u] =
                           [req EXCEPT !.pc = "raised", !.err = "PermissionError"]]
             /\ UNCHANGED sc_session_exercises
        ELSE /\ sc_session_exercises' =
                    update_sc_session_exercise_actual(sc_session_exercises, row_id,
                                                      v.sets_actual, v.reps_actual,
                                                      v.load_kg_actual, v.completed_flag,
                                                      v.actual_notes)
             /\ act' = [act EXCEPT ![u] = [req EXCEPT !.pc = "returned"]]

\* Row ids a request may name: the ids in the table and one that is not.
RowIds == { x.id : x \in sc_session_exercises } \cup { row_seq + 1 }

UpdateActual(u) ==
    /\ act[u].pc = "idle"
    /\ \E user \in Users, row_id \in RowIds, v \in ActualValues :
          UpdateActualWith(u, user, row_id, v)
    /\ UNCHANGED << sc_blocks, sc_weeks, sc_sessions, row_seq, accessVars, gen, pg, estVars, dataVars, sync, libVars >>

(***************************************************************************)
(* Organization membership (db_store.add_coach_to_org INSERT OR IGNORE,    *)
(* remove_coach_from_org DELETE).                                          *)
(***************************************************************************)
add_coach_to_org(owner_user_id, coach_user_id) ==
    /\ organization_coaches' = organization_coaches \cup { << owner_user_id, coach_user_id >> }
    /\ UNCHANGED << storeVars, patients, patient_access_table, coach_patient_access,
                    gen, act, pg, estVars, dataVars, sync, libVars >>

remove_coach_from_org(owner_user_id, coach_user_id) ==
    /\ organization_coaches' = organization_coaches \ { << owner_user_id, coach_user_id >> }
    /\ UNCHANGED << storeVars, patients, patient_access_table, coach_patient_access,
                    gen, act, pg, estVars, dataVars, sync, libVars >>

(***************************************************************************)
(* The patient-level *_for_user wrappers.                                  *)
(***************************************************************************)
\* add_ride_for_user
AddRide ==
    /\ op.pc = "idle"
    /\ \E user \in Users, patient_id \in PatientIds, r \in RideValues :
          IF ~_assert_patient_access(user[1], user[2], patient_id)
          THEN /\ op' = OpRaised("add_ride", user, patient_id, r, "PermissionError")
               /\ UNCHANGED rides
          ELSE /\ rides' = add_ride(rides, patient_id, r.ride_date, r.distance_km,
                                    r.duration_min, r.rpe, r.notes)
               /\ op' = OpReturned("add_ride", user, patient_id, r)
    /\ UNCHANGED << weekly_plan, strava_tokens, strava_synced, patient_profile,
                    strength_estimates >>
    /\ UNCHANGED << storeVars, accessVars, gen, act, pg, estVars, sync, libVars >>

\* upsert_week_plan_for_user: _assert_coach, then _assert_patient_access.
UpsertWeekPlan ==
    /\ op.pc = "idle"
    /\ \E user \in Users, patient_id \in PatientIds, p \in WeekPlanValues :
          IF ~_assert_coach(user[2]) \/ ~_assert_patient_access(user[1], user[2], patient_id)
          THEN /\ op' = OpRaised("upsert_week_plan", user, patient_id, p, "PermissionError")
               /\ UNCHANGED weekly_plan
          ELSE /\ weekly_plan' = upsert_week_plan(weekly_plan, patient_id, p.week_start,
                                                  p.planned_km, p.planned_hours, p.phase,
                                                  p.notes)
               /\ op' = OpReturned("upsert_week_plan", user, patient_id, p)
    /\ UNCHANGED << rides, strava_tokens, strava_synced, patient_profile,
                    strength_estimates >>
    /\ UNCHANGED << storeVars, accessVars, gen, act, pg, estVars, sync, libVars >>

\* save_strava_tokens_for_user
SaveStravaTokens ==
    /\ op.pc = "idle"
    /\ \E user \in Users, patient_id \in PatientIds, t \in TokenValues :
          IF ~_assert_patient_access(user[1], user[2], patient_id)
          THEN /\ op' = OpRaised("save_strava_tokens", user, patient_id, t, "PermissionError")
               /\ UNCHANGED strava_tokens
          ELSE /\ strava_tokens' = save_strava_tokens(strava_tokens, patient_id,
                                       t.access_token, t.refresh_token, t.expires_at,
                                       t.athlete_id, t.scope)
               /\ op' = OpReturned("save_strava_tokens", user, patient_id, t)
    /\ UNCHANGED << rides, weekly_plan, strava_synced, patient_profile,
                    strength_estimates >>
    /\ UNCHANGED << storeVars, accessVars, gen, act, pg, estVars, sync, libVars >>

\* mark_activity_synced_for_user
MarkActivitySynced ==
    /\ op.pc = "idle"
    /\ \E user \in Users, patient_id \in PatientIds, activity_id \in ActivityIds :
          IF ~_assert_patient_access(user[1], user[2], patient_id)
          THEN /\ op' = OpRaised("mark_activity_synced", user, patient_id, activity_id,
                                 "PermissionError")
               /\ UNCHANGED strava_synced
          ELSE /\ strava_synced' = mark_activity_synced(strava_synced, patient_id, activity_id)
               /\ op' = OpReturned("mark_activity_synced", user, patient_id, activity_id)
    /\ UNCHANGED << rides, weekly_plan, strava_tokens, patient_profile,
                    strength_estimates >>
    /\ UNCHANGED << storeVars, accessVars, gen, act, pg, estVars, sync, libVars >>

\* upsert_patient_profile_for_user
UpsertPatientProfile ==
    /\ op.pc = "idle"
    /\ \E user \in Users, patient_id \in PatientIds, p \in ProfileValues :
          IF ~_assert_patient_access(user[1], user[2], patient_id)
          THEN /\ op' = OpRaised("upsert_patient_profile", user, patient_id, p,
                                 "PermissionError")
               /\ UNCHANGED patient_profile
          ELSE /\ patient_profile' = upsert_patient_profile(patient_profile, patient_id,
                                         p.sex, p.dob, p.bodyweight_kg, p.presumed_level)
               /\ op' = OpReturned("upsert_patient_profile", user, patient_id, p)
    /\ UNCHANGED << rides, weekly_plan, strava_tokens, strava_synced,
                    strength_estimates >>
    /\ UNCHANGED << storeVars, accessVars, gen, act, pg, estVars, sync, libVars >>

\* upsert_strength_estimate_for_user; the foreign key on exercise_id makes the INSERT
\* fail for an exercise the catalog does not have.
UpsertStrengthEstimate ==
    /\ op.pc = "idle"
    /\ \E user \in Users, patient_id \in PatientIds, exercise_id \in EstimateExercises, e \in EstimateValues :
          LET args == StrengthEstimate(patient_id, exercise_id, e.as_of_date,
                          e.estimated_1rm_kg, e.estimated_rel_1rm_bw, e.level_used,
                          e.sex_used, e.age_used, e.bw_used, e.method, e.notes)
          IN  IF ~_assert_patient_access(user[1], user[2], patient_id)
              THEN /\ op' = OpRaised("upsert_strength_estimate", user, patient_id, args,
                                     "PermissionError")
                   /\ UNCHANGED strength_estimates
              ELSE IF exercise_id \notin DOMAIN exercises
              THEN /\ op' = OpRaised("upsert_strength_estimate", user, patient_id, args,
                                     "IntegrityError")
                   /\ UNCHANGED strength_estimates
              ELSE /\ strength_estimates' = upsert_strength_estimate(strength_estimates, args)
                   /\ op' = OpReturned("upsert_strength_estimate", user, patient_id, args)
    /\ UNCHANGED << rides, weekly_plan, strava_tokens, strava_synced, patient_profile >>
    /\ UNCHANGED << storeVars, accessVars, gen, act, pg, estVars, sync, libVars >>

\* The response is delivered; the next call can be made.
OpDone ==
    /\ op.pc \in { "returned", "raised" }
    /\ op' = IdleOp
    /\ UNCHANGED << rides, weekly_plan, strava_tokens, strava_synced, patient_profile,
                    strength_estimates >>
    /\ UNCHANGED << storeVars, accessVars, gen, act, pg, estVars, sync, libVars >>

(***************************************************************************)
(* services.sync_strava_rides, one step per store call.  pc is the call    *)
(* the run makes next for activity i of the page: "check"                  *)
(* (is_activity_synced_for_user), "add" (add_ride_for_user), "mark"        *)
(* (mark_activity_synced_for_user); "returned" and "raised" end it.        *)
(***************************************************************************)
\* if sport not in [...]: continue  -- the next activity at or after i of a ride
\* sport, 0 when the page is exhausted.
RECURSIVE NextRide(_)
NextRide(i) ==
    IF i > Len(StravaFeed) THEN 0
    ELSE IF StravaFeed[i].sport_type \notin RideSports THEN NextRide(i + 1)
    ELSE i

\* The loop's control after activity i - 1: the next page is empty, the run returns.
AfterActivity(s, i) ==
    IF NextRide(i) = 0 THEN [s EXCEPT !.pc = "returned"]
    ELSE [s EXCEPT !.pc = "check", !.i = NextRide(i)]

SyncRaise(s, e) == [s EXCEPT !.pc = "raised", !.err = e]

\* get_strava_tokens_for_user, then the first page.
SyncBegin(r) ==
    /\ sync[r].pc = "idle"
    /\ \E user \in Users :
          LET s == [sync[r] EXCEPT !.user = user, !.patient_id = 1]
          IN  IF ~_assert_patient_access(user[1], user[2], 1)
              THEN sync' = [sync EXCEPT ![r] = SyncRaise(s, "PermissionError")]
              ELSE IF get_strava_tokens(strava_tokens, 1) = None
              THEN sync' = [sync EXCEPT ![r] = SyncRaise(s, "ValueError")]
              ELSE sync' = [sync EXCEPT ![r] = AfterActivity(s, 1)]
    /\ UNCHANGED << storeVars, accessVars, gen, act, pg, estVars, dataVars, libVars >>

SyncCheck(r) ==
    /\ sync[r].pc = "check"
    /\ LET s == sync[r]
       IN  IF ~_assert_patient_access(s.user[1], s.user[2], s.patient_id)
           THEN sync' = [sync EXCEPT ![r] = SyncRaise(s, "PermissionError")]
           ELSE IF is_activity_synced(strava_synced, s.patient_id, StravaFeed[s.i].id)
           THEN sync' = [sync EXCEPT ![r] = AfterActivity(s, s.i + 1)]
           ELSE sync' = [sync EXCEPT ![r] = [s EXCEPT !.pc = "add"]]
    /\ UNCHANGED << storeVars, accessVars, gen, act, pg, estVars, dataVars, libVars >>

\* ride_date is start_date_local[:10], distance_km is distance / 1000.0 (here in tenths
\* of a kilometre), duration_min is int(round(elapsed_time / 60.0)).
SyncAdd(r) ==
    /\ sync[r].pc = "add"
    /\ LET s == sync[r]
           a == StravaFeed[s.i]
       IN  IF ~_assert_patient_access(s.user[1], s.user[2], s.patient_id)
           THEN /\ sync' = [sync EXCEPT ![r] = SyncRaise(s, "PermissionError")]
                /\ UNCHANGED rides
           ELSE /\ rides' = add_ride(rides, s.patient_id, a.start_date_local,
                                     a.distance \div 100, RoundHalfEven(a.elapsed_time, 60),
                                     None, Some(<< "[Strava]", a.name >>))
                /\ sync' = [sync EXCEPT ![r] = [s EXCEPT !.pc = "mark"]]
    /\ UNCHANGED << weekly_plan, strava_tokens, strava_synced, patient_profile,
                    strength_estimates, op >>
    /\ UNCHANGED << storeVars, accessVars, gen, act, pg, estVars, libVars >>

SyncMark(r) ==
    /\ sync[r].pc = "mark"
    /\ LET s == sync[r]
       IN  IF ~_assert_patient_access(s.user[1], s.user[2], s.patient_id)
           THEN /\ sync' = [sync EXCEPT ![r] = SyncRaise(s, "PermissionError")]
                /\ UNCHANGED strava_synced
           ELSE /\ strava_synced' = mark_activity_synced(strava_synced, s.patient_id,
                                                         StravaFeed[s.i].id)
                /\ sync' = [sync EXCEPT ![r] =
                               AfterActivity([s EXCEPT !.imported = s.imported + 1], s.i + 1)]
    /\ UNCHANGED << rides, weekly_plan, strava_tokens, patient_profile,
                    strength_estimates, op >>
    /\ UNCHANGED << storeVars, accessVars, gen, act, pg, estVars, libVars >>

\* The response of update_sc_actuals is delivered; the next one can be made.
ActDone(u) ==
    /\ act[u].pc \in { "returned", "raised" }
    /\ act' = [act EXCEPT ![u] = IdleAct]
    /\ UNCHANGED << storeVars, accessVars, gen, pg, estVars, dataVars, sync, libVars >>

(***************************************************************************)
(* seed_strength_standards.seed, one step per store call; runs follow one  *)
(* another.  call.args.run counts the runs started, call.args.next is the  *)
(* call the run makes next: an upsert_exercise, then an _ensure_rep_scheme,*)
(* then the norm standards; past them the run has ended.                   *)
(***************************************************************************)
MaxSeedRuns == 3

SeedNormsStep == Len(SeedExerciseCalls) + Len(SeedRepSchemeCalls) + 1

SeedCall(run, next) == [IdleCall EXCEPT !.kind = "seed", !.args = [run |-> run, next |-> next]]

SeedEnded == call.kind = "seed" /\ call.args.next = SeedNormsStep + 1

\* python seed_strength_standards.py: init_db() creates nothing on existing tables.
SeedRun ==
    /\ call.kind = "idle" \/ SeedEnded
    /\ (IF call.kind = "idle" THEN 0 ELSE call.args.run) < MaxSeedRuns
    /\ call' = SeedCall((IF call.kind = "idle" THEN 0 ELSE call.args.run) + 1, 1)
    /\ UNCHANGED << norm_strength_standards, exercises_table, rep_schemes >>
    /\ UNCHANGED << storeVars, accessVars, gen, act, pg, dataVars, sync >>

SeedExerciseStep ==
    /\ call.kind = "seed" /\ call.args.next \in 1..Len(SeedExerciseCalls)
    /\ exercises_table' = seed_exercise(exercises_table, call.args.next)
    /\ call' = SeedCall(call.args.run, call.args.next + 1)
    /\ UNCHANGED << norm_strength_standards, rep_schemes >>
    /\ UNCHANGED << storeVars, accessVars, gen, act, pg, dataVars, sync >>

SeedRepSchemeStep ==
    /\ call.kind = "seed"
    /\ call.args.next - Len(SeedExerciseCalls) \in 1..Len(SeedRepSchemeCalls)
    /\ rep_schemes' = seed_rep_scheme(rep_schemes, call.args.next - Len(SeedExerciseCalls))
    /\ call' = SeedCall(call.args.run, call.args.next + 1)
    /\ UNCHANGED << norm_strength_standards, exercises_table >>
    /\ UNCHANGED << storeVars, accessVars, gen, act, pg, dataVars, sync >>

SeedNorms ==
    /\ call.kind = "seed" /\ call.args.next = SeedNormsStep
    /\ norm_strength_standards' = seed_norms(norm_strength_standards)
    /\ call' = SeedCall(call.args.run, call.args.next + 1)
    /\ UNCHANGED << exercises_table, rep_schemes >>
    /\ UNCHANGED << storeVars, accessVars, gen, act, pg, dataVars, sync >>

Next ==
    \/ \E c \in DOMAIN gen : Begin(c, GenArgs)
    \/ \E c \in DOMAIN gen : StepWeek(c)
    \/ \E c \in DOMAIN gen : StepSession(c)
    \/ \E c \in DOMAIN gen : StepClear(c)
    \/ \E c \in DOMAIN gen : StepRow(c)
    \/ \E u \in DOMAIN act : UpdateActual(u)
    \/ add_coach_to_org("owner1", "coach1")
    \/ remove_coach_from_org("owner1", "coach1")

Spec == Init /\ [][Next]_vars

(***************************************************************************)
(* The estimator on its own: the norm table as seed() left it, writes to   *)
(* it, and one call of the estimator or of the scaler.                     *)
(***************************************************************************)
EstInit ==
    /\ Init
    /\ patient_access_table = FALSE
    /\ coach_patient_access = {}

NextEst == UpsertNorm \/ Estimate \/ Scale

SpecEst == EstInit /\ [][NextEst]_vars

(***************************************************************************)
(* Every *_for_user wrapper that writes, called once each at most: one     *)
(* block generation of one week, one session and one template row, one     *)
(* update of actuals, one patient-level call, while the organization's     *)
(* membership changes.                                                     *)
(***************************************************************************)
UserGenArgs ==
    [user : Users, patient_id : {1}, start_date : {[y |-> 2024, m |-> 2, d |-> 26]},
     goal : {"hybrid"}, weeks : {1}, deload_week : {1}, sessions_per_week : {1},
     templates : {<< TplSquatPct, << >> >>}]

NextUser ==
    \/ \E c \in DOMAIN gen : Begin(c, UserGenArgs)
    \/ \E c \in DOMAIN gen : StepWeek(c)
    \/ \E c \in DOMAIN gen : StepSession(c)
    \/ \E c \in DOMAIN gen : StepClear(c)
    \/ \E c \in DOMAIN gen : StepRow(c)
    \/ \E u \in DOMAIN act : UpdateActual(u)
    \/ AddRide
    \/ UpsertWeekPlan
    \/ SaveStravaTokens
    \/ MarkActivitySynced
    \/ UpsertPatientProfile
    \/ UpsertStrengthEstimate
    \/ add_coach_to_org("owner1", "coach1")
    \/ remove_coach_from_org("owner1", "coach1")

SpecUser == Init /\ [][NextUser]_vars

(***************************************************************************)
(* Actuals recorded again and again on the rows of one generated block.    *)
(***************************************************************************)
NextActual ==
    \/ \E c \in DOMAIN gen : Begin(c, UserGenArgs)
    \/ \E c \in DOMAIN gen : StepWeek(c)
    \/ \E c \in DOMAIN gen : StepSession(c)
    \/ \E c \in DOMAIN gen : StepClear(c)
    \/ \E c \in DOMAIN gen : StepRow(c)
    \/ \E u \in DOMAIN act : UpdateActual(u)
    \/ \E u \in DOMAIN act : ActDone(u)

SpecActual == Init /\ [][NextActual]_vars

(***************************************************************************)
(* The seed script run again and again on a database init_db() has just    *)
(* created: the library and the norm table are empty.                      *)
(***************************************************************************)
SeedInit ==
    /\ InitStore
    /\ InitAccess
    /\ gen = [c \in {"g1"} |-> IdleGen]
    /\ act = [u \in {"a1"} |-> IdleAct]
    /\ pg = NoProg
    /\ norm_strength_standards = << >>
    /\ call = IdleCall
    /\ InitData
    /\ exercises_table = << >>
    /\ rep_schemes = << >>
    /\ sync = [r \in SyncRuns |-> IdleSync]

NextSeed ==
    \/ SeedRun
    \/ SeedExerciseStep
    \/ SeedRepSchemeStep
    \/ SeedNorms

SpecSeed == SeedInit /\ [][NextSeed]_vars

(***************************************************************************)
(* Two create_sc_block requests in flight at once, their store calls       *)
(* interleaved, while actuals are recorded.                                *)
(***************************************************************************)
TwoGenArgs ==
    [user : Users, patient_id : {1}, start_date : {[y |-> 2024, m |-> 2, d |-> 26]},
     goal : {"hybrid"}, weeks : {1}, deload_week : {0}, sessions_per_week : {1, 2},
     templates : {<< TplSquatPct, TplTwice >>}]

TwoInit ==
    /\ InitStore
    /\ InitAccess
    /\ gen = [c \in {"g1", "g2"} |-> IdleGen]
    /\ act = [u \in {"a1"} |-> IdleAct]
    /\ pg = NoProg
    /\ InitEst
    /\ InitData
    /\ InitLib
    /\ sync = [r \in SyncRuns |-> IdleSync]

NextTwo ==
    \/ \E c \in DOMAIN gen : Begin(c, TwoGenArgs)
    \/ \E c \in DOMAIN gen : StepWeek(c)
    \/ \E c \in DOMAIN gen : StepSession(c)
    \/ \E c \in DOMAIN gen : StepClear(c)
    \/ \E c \in DOMAIN gen : StepRow(c)
    \/ \E u \in DOMAIN act : UpdateActual(u)

SpecTwo == TwoInit /\ [][NextTwo]_vars

(***************************************************************************)
(* Strava connected, then runs of sync_strava_rides one after another: a   *)
(* run begins when no other run is between its entry and its end.  The     *)
(* organization's membership changes meanwhile, so a run can be refused    *)
(* at any of its store calls.                                              *)
(***************************************************************************)
InProgress(r) == sync[r].pc \in { "check", "add", "mark" }

NextSync ==
    \/ SaveStravaTokens
    \/ \E r \in SyncRuns : (\A q \in SyncRuns : ~InProgress(q)) /\ SyncBegin(r)
    \/ \E r \in SyncRuns : SyncCheck(r)
    \/ \E r \in SyncRuns : SyncAdd(r)
    \/ \E r \in SyncRuns : SyncMark(r)
    \/ add_coach_to_org("owner1", "coach1")
    \/ remove_coach_from_org("owner1", "coach1")

SpecSync == Init /\ [][NextSync]_vars

(***************************************************************************)
(* Saves of strength estimates, one call after another.                   *)
(***************************************************************************)
NextSave ==
    \/ UpsertStrengthEstimate
    \/ OpDone

SpecSave == Init /\ [][NextSave]_vars

(***************************************************************************)
(* The style classification on its own: _parse_exercise_style applied to   *)
(* one catalog row.  A row of the table exercises has a name (NOT NULL)    *)
(* and nullable category, implement and notes.                             *)
(***************************************************************************)
ExerciseNames ==
    { "Back Squat", "Wall Sit", "Side Plank", "Isometric Split Squat",
      "Bike Erg (High Seat)", "Ski Erg" }
ExerciseCategories == { None, Some("conditioning"), Some("squat") }
ExerciseImplements ==
    { None, Some("machine"), Some("dumbbell"), Some("kettlebell"), Some("band"),
      Some("barbell"), Some("bodyweight") }
ExerciseNotes ==
    { None, Some("Isometric hold; reps stored as seconds."),
      Some("Hold a plank between sets.") }

ExerciseRows ==
    [name : ExerciseNames, category : ExerciseCategories,
     implement : ExerciseImplements, notes : ExerciseNotes]

Classify ==
    /\ call.kind = "idle"
    /\ \E ex_row \in ExerciseRows :
          call' = [kind |-> "style", args |-> ex_row, looked_up |-> FALSE, norm |-> None,
                   result |-> _parse_exercise_style(Some(ex_row))]
    /\ UNCHANGED << storeVars, accessVars, gen, act, pg, norm_strength_standards, dataVars, sync, libVars >>

SpecStyle == EstInit /\ [][Classify]_vars

(***************************************************************************)
(* Reading the store.                                                      *)
(***************************************************************************)
BlockWeekIds(b) == { i \in 1..Len(sc_weeks) : sc_weeks[i].block_id = b }
WeekSessionIds(w) == { j \in 1..Len(sc_sessions) : sc_sessions[j].week_id = w }
SessionRows(s) == { x \in sc_session_exercises : x.session_id = s }
BlockSessionIds(b) == UNION { WeekSessionIds(w) : w \in BlockWeekIds(b) }
BlockRows(b) == UNION { SessionRows(s) : s \in BlockSessionIds(b) }

\* The exercise ids of a set of rows in id (creation) order.
RECURSIVE InIdOrder(_)
InIdOrder(rows) ==
    IF rows = {} THEN << >>
    ELSE LET x == CHOOSE r \in rows : \A q \in rows : r.id <= q.id
         IN  << x.exercise_id >> \o InIdOrder(rows \ {x})

\* The exercise ids of the rows of a template that name an exercise, in template order.
NamedRows(tpl) ==
    SelectSeq([i \in 1..Len(tpl) |-> tpl[i].exercise_id], LAMBDA e : e # None)
NamedIds(tpl) == [i \in 1..Len(NamedRows(tpl)) |-> Val(NamedRows(tpl)[i])]

\* Template A belongs to label A, template B to label B.
TemplateOfLabel(a, lab) == IF lab = "B" THEN a.templates[2] ELSE a.templates[1]

Returned(c) == gen[c].pc = "returned"
\* The request wrote its block row and then raised.
FailedAfterBlock(c) == gen[c].pc = "raised" /\ gen[c].block_id # 0

HasActual(x) ==
    \/ x.sets_actual # None \/ x.reps_actual # None \/ x.load_kg_actual # None
    \/ x.completed_flag = 1 \/ x.actual_notes # None

SameActual(x, y) ==
    /\ x.sets_actual = y.sets_actual /\ x.reps_actual = y.reps_actual
    /\ x.load_kg_actual = y.load_kg_actual /\ x.completed_flag = y.completed_flag
    /\ x.actual_notes = y.actual_notes

\* Next day of the calendar, and the date n days after dt, counted day by day.
NextDay(dt) ==
    IF dt.d < DaysInMonth(dt.y, dt.m) THEN [dt EXCEPT !.d = dt.d + 1]
    ELSE IF dt.m < 12 THEN [y |-> dt.y, m |-> dt.m + 1, d |-> 1]
    ELSE [y |-> dt.y + 1, m |-> 1, d |-> 1]

RECURSIVE PlusDays(_, _)
PlusDays(dt, n) == IF n = 0 THEN dt ELSE PlusDays(NextDay(dt), n - 1)

(***************************************************************************)
(* The generation pass of one session (services.create_sc_block, the body  *)
(* of `for lab in labels` after the session row is there): clear the       *)
(* session's rows, then insert one row per template row that names an      *)
(* exercise.  The table after the pass, for a caller whose access holds    *)
(* and a template whose exercises are in the catalog.                      *)
(***************************************************************************)
RECURSIVE add_template_rows(_, _, _, _, _, _, _)
add_template_rows(table, seq, sess_id, tpl, i, wk, deload) ==
    IF i > Len(tpl) THEN table
    ELSE IF tpl[i].exercise_id = None
    THEN add_template_rows(table, seq, sess_id, tpl, i + 1, wk, deload)
    ELSE add_template_rows(add_target_row(table, seq, sess_id, tpl[i], wk, deload),
                           seq + 1, sess_id, tpl, i + 1, wk, deload)

generate_session(table, seq, sess_id, tpl, wk, deload) ==
    add_template_rows(clear_sc_session_exercises(table, sess_id), seq, sess_id, tpl, 1,
                      wk, deload)

(***************************************************************************)
(* C1.  Regeneration preserves actuals: for any target row whose actual    *)
(* fields have been recorded, running the generation pass again for the    *)
(* row's session (same block, same templates) leaves a row of that session *)
(* and exercise with the same actual sets, reps, load, completed flag and  *)
(* actual notes.                                                           *)
(***************************************************************************)
C1_RegenerationPreservesActuals ==
    \A c \in DOMAIN gen :
        Returned(c) =>
            \A w \in BlockWeekIds(gen[c].block_id) : \A s \in WeekSessionIds(w) :
                LET a     == gen[c].args
                    wk    == sc_weeks[w].week_no
                    after == generate_session(sc_session_exercises, row_seq, s,
                                 tpl_of(sc_sessions[s].session_label, a.templates[1],
                                        a.templates[2]),
                                 wk, is_deload(wk, a.deload_week))
                IN  \A x \in SessionRows(s) :
                        HasActual(x) =>
                            \E y \in after :
                                /\ y.session_id = s /\ y.exercise_id = x.exercise_id
                                /\ SameActual(x, y)

(***************************************************************************)
(* C2.  Block generation is all-or-nothing: when create_sc_block has       *)
(* failed after writing the block row, the store holds either no row of    *)
(* that block or the complete weeks x sessions x template-rows product.    *)
(***************************************************************************)
\* The labels of the sessions a week has for a sessions_per_week of 1, 2 and 3.
LabelsFor(sessions_per_week) ==
    IF sessions_per_week = 1 THEN {"A"}
    ELSE IF sessions_per_week = 2 THEN {"A", "B"}
    ELSE {"A", "B", "C"}

NoRowsOf(b) == b \notin 1..Len(sc_blocks) /\ BlockWeekIds(b) = {}

CompleteBlock(b, a) ==
    /\ b \in 1..Len(sc_blocks)
    /\ \A wk \in 1..a.weeks :
          \E w \in BlockWeekIds(b) :
              /\ sc_weeks[w].week_no = wk
              /\ \A lab \in LabelsFor(a.sessions_per_week) :
                    \E s \in WeekSessionIds(w) :
                        /\ sc_sessions[s].session_label = lab
                        /\ Cardinality(SessionRows(s)) = Len(NamedRows(TemplateOfLabel(a, lab)))

C2_AllOrNothing ==
    \A c \in DOMAIN gen :
        FailedAfterBlock(c) =>
            NoRowsOf(gen[c].block_id) \/ CompleteBlock(gen[c].block_id, gen[c].args)

(***************************************************************************)
(* C3.  After a block generation completes, every session of every week    *)
(* 1..weeks of the block holds exactly one target row per template row of  *)
(* its label that names an exercise, in template order; the block holds    *)
(* weeks x (sum over its labels of such template rows) target rows, and an *)
(* exercise listed twice in a template has two rows in the session.        *)
(***************************************************************************)
RECURSIVE SumOver(_, _)
SumOver(S, f) ==
    IF S = {} THEN 0
    ELSE LET e == CHOOSE e \in S : TRUE IN f[e] + SumOver(S \ {e}, f)

C3_OneRowPerTemplateRow ==
    \A c \in DOMAIN gen :
        Returned(c) =>
            LET a    == gen[c].args
                b    == gen[c].block_id
                labs == { sc_sessions[s].session_label : s \in BlockSessionIds(b) }
            IN  /\ \A wk \in 1..a.weeks :
                      \E w \in BlockWeekIds(b) :
                          /\ sc_weeks[w].week_no = wk
                          /\ WeekSessionIds(w) # {}
                          /\ \A s \in WeekSessionIds(w) :
                                InIdOrder(SessionRows(s)) =
                                    NamedIds(TemplateOfLabel(a, sc_sessions[s].session_label))
                /\ Cardinality(BlockRows(b)) =
                      a.weeks * SumOver(labs, [l \in labs |->
                                                  Len(NamedRows(TemplateOfLabel(a, l)))])

\* A finished two-session block whose template B lists one exercise twice and a finished
\* block whose template has a row that names no exercise.
C3_Witness ==
    \E c \in DOMAIN gen :
        /\ Returned(c)
        /\ gen[c].args.weeks >= 2
        /\ \/ /\ gen[c].args.templates = << TplSquatPct, TplTwice >>
              /\ gen[c].args.sessions_per_week = 2
              /\ Cardinality(BlockRows(gen[c].block_id)) = 3 * gen[c].args.weeks
              /\ \E s \in BlockSessionIds(gen[c].block_id) :
                     InIdOrder(SessionRows(s)) = << 3, 3 >>
           \/ /\ gen[c].args.templates = << TplGap, TplMissing >>
              /\ Cardinality(BlockRows(gen[c].block_id)) = gen[c].args.weeks

(***************************************************************************)
(* C4.  After create_sc_block with weeks = N and start date S, the block   *)
(* has exactly one week row for each week_no in 1..N and none outside;     *)
(* each has week_start = S + 7 x (week_no - 1) days and its deload flag is *)
(* set if and only if week_no equals the block's deload_week.              *)
(***************************************************************************)
C4_OneWeekPerWeekNo ==
    \A c \in DOMAIN gen :
        Returned(c) =>
            LET b   == gen[c].block_id
                blk == sc_blocks[b]
            IN  /\ \A wk \in 1..blk.weeks :
                      Cardinality({ w \in BlockWeekIds(b) : sc_weeks[w].week_no = wk }) = 1
                /\ \A w \in BlockWeekIds(b) :
                      /\ sc_weeks[w].week_no \in 1..blk.weeks
                      /\ sc_weeks[w].week_start =
                            PlusDays(blk.start_date, 7 * (sc_weeks[w].week_no - 1))
                      /\ (sc_weeks[w].deload_flag = 1) <=>
                            (sc_weeks[w].week_no = blk.deload_week)

\* A finished block whose second week starts in the next month of a leap February, or
\* in the next year, with one deload week and one week that is not.
C4_Witness ==
    \E c \in DOMAIN gen :
        /\ Returned(c)
        /\ \E w1, w2 \in BlockWeekIds(gen[c].block_id) :
              /\ sc_weeks[w1].week_no = 1 /\ sc_weeks[w1].deload_flag = 0
              /\ sc_weeks[w2].week_no = 2 /\ sc_weeks[w2].deload_flag = 1
              /\ sc_weeks[w2].week_start \in
                    { [y |-> 2024, m |-> 3, d |-> 4], [y |-> 2026, m |-> 1, d |-> 5] }

(***************************************************************************)
(* C5.  create_sc_block called with deload_week < 1 or deload_week > weeks *)
(* is rejected before any write: every stored block satisfies              *)
(* 1 <= deload_week <= weeks.                                              *)
(***************************************************************************)
C5_DeloadWeekValidated ==
    \A b \in 1..Len(sc_blocks) :
        1 <= sc_blocks[b].deload_week /\ sc_blocks[b].deload_week <= sc_blocks[b].weeks

(***************************************************************************)
(* C6.  For sessions_per_week = 1, 2 and 3 a finished generation has       *)
(* created, in every week of the block, exactly the sessions labelled {A}, *)
(* {A, B} and {A, B, C} respectively, one session row per (week, label).   *)
(***************************************************************************)
C6_SessionLabels ==
    \A c \in DOMAIN gen :
        Returned(c) =>
            \A w \in BlockWeekIds(gen[c].block_id) :
                /\ { sc_sessions[s].session_label : s \in WeekSessionIds(w) } =
                      LabelsFor(gen[c].args.sessions_per_week)
                /\ Cardinality(WeekSessionIds(w)) =
                      Cardinality(LabelsFor(gen[c].args.sessions_per_week))

(***************************************************************************)
(* The progression engine on its own: one template row taken through the   *)
(* weeks of a block, as the week loop of create_sc_block calls it          *)
(* (is_deload = (wk == deload_week), week 1 first).                        *)
(***************************************************************************)
ProgWeeks == 6
MaxSets == 4
Styles == {"isometric", "bodyweight", "conditioning", "db_kb", "barbell", "generic", "unknown"}
RepsBases == {1, 5, 8, 10, 11, 12, 13, 20, 45}
LoadBases == {None, Some(0), Some(1), Some(200), Some(225)}
PctBases == {None, Some(0), Some(700), Some(1000)}

ProgInit ==
    /\ InitStore
    /\ InitAccess
    /\ patient_access_table = FALSE
    /\ coach_patient_access = {}
    /\ gen = [c \in {"g1"} |-> IdleGen]
    /\ act = [u \in {"a1"} |-> IdleAct]
    /\ InitEst
    /\ InitData
    /\ InitLib
    /\ sync = [r \in SyncRuns |-> IdleSync]
    /\ pg \in [style : Styles, sets : 1..MaxSets, reps : RepsBases, load : LoadBases,
               pct : PctBases, deload_week : 0..ProgWeeks, out : {<< >>}]

ProgWeek ==
    /\ Len(pg.out) < ProgWeeks
    /\ LET wk == Len(pg.out) + 1
       IN  pg' = [pg EXCEPT !.out = Append(@,
                     _suggest_progression(pg.style, wk, is_deload(wk, pg.deload_week),
                                          pg.sets, pg.reps, pg.load, pg.pct))]
    /\ UNCHANGED << storeVars, accessVars, gen, act, estVars, dataVars, sync, libVars >>

ProgNext == ProgWeek

SpecProg == ProgInit /\ [][ProgNext]_vars

(***************************************************************************)
(* Reading a finished or running progression.                              *)
(***************************************************************************)
ProgDone == Len(pg.out) = ProgWeeks
IsDeloadWeek(w) == w = pg.deload_week
Volume(t) == t.sets * t.reps
OptLess(a, b) == a # None /\ b # None /\ Val(a) < Val(b)
OptLeq(a, b) == (a = None /\ b = None) \/ (a # None /\ b # None /\ Val(a) <= Val(b))
\* The week's linearly progressed reps of a dumbbell/kettlebell row exceed the cap.
CapExceeded(w) == pg.style = "db_kb" /\ pg.load # None /\ pg.reps + (w - 1) > RepCap

(***************************************************************************)
(* C7.  Deload reduces load: in a block whose deload week d is >= 2, the   *)
(* deload week's volume (sets x reps) is strictly less than week d-1's,    *)
(* and when the row carries a load or a %1RM the deload week's load /      *)
(* %1RM is strictly less than week d-1's.                                  *)
(***************************************************************************)
C7_DeloadReducesLoad ==
    LET d == pg.deload_week
    IN  (d >= 2 /\ Len(pg.out) >= d) =>
            /\ Volume(pg.out[d]) < Volume(pg.out[d - 1])
            /\ pg.load # None => OptLess(pg.out[d].load, pg.out[d - 1].load)
            /\ pg.pct # None => OptLess(pg.out[d].pct, pg.out[d - 1].pct)

(***************************************************************************)
(* C8.  Monotonic non-deload progression: for any two non-deload weeks     *)
(* w1 < w2 of a row, the reps, the load and the %1RM of w2 are each >=     *)
(* those of w1, for every style; the only exception is the reps of a       *)
(* dumbbell/kettlebell row in a week w2 where the cap forces a reset.      *)
(***************************************************************************)
C8_MonotonicProgression ==
    \A w1, w2 \in 1..Len(pg.out) :
        (w1 < w2 /\ ~IsDeloadWeek(w1) /\ ~IsDeloadWeek(w2)) =>
            /\ CapExceeded(w2) \/ pg.out[w2].reps >= pg.out[w1].reps
            /\ OptLeq(pg.out[w1].load, pg.out[w2].load)
            /\ OptLeq(pg.out[w1].pct, pg.out[w2].pct)

\* A dumbbell row whose reps grow, then hit the cap: reps fall back and the load steps up.
C8_Witness ==
    /\ ProgDone
    /\ pg.style = "db_kb"
    /\ \E w1, w2, w3 \in 1..ProgWeeks :
          /\ w1 < w2 /\ w2 < w3
          /\ ~IsDeloadWeek(w1) /\ ~IsDeloadWeek(w2) /\ ~IsDeloadWeek(w3)
          /\ pg.out[w2].reps > pg.out[w1].reps
          /\ pg.out[w3].reps < pg.out[w2].reps
          /\ OptLess(pg.out[w2].load, pg.out[w3].load)

(***************************************************************************)
(* C9.  Double-progression reset: for a dumbbell/kettlebell row with a     *)
(* load, in the first week w whose linearly progressed reps exceed the cap *)
(* the reps are the floor and the load is the base load plus one           *)
(* increment; in the following non-deload weeks w+k the reps resume from   *)
(* the floor (floor + k) instead of staying at the floor.                  *)
(***************************************************************************)
C9_DoubleProgressionReset ==
    \A w \in 1..Len(pg.out) :
        (/\ CapExceeded(w)
         /\ \A v \in 1..(w - 1) : ~CapExceeded(v)
         /\ ~IsDeloadWeek(w)) =>
            /\ pg.out[w].reps = RepFloor
            /\ pg.out[w].load = Some(Val(pg.load) + LoadStepTenths)
            /\ \A k \in 1..(RepCap - RepFloor) :
                  (w + k <= Len(pg.out) /\ ~IsDeloadWeek(w + k)) =>
                      pg.out[w + k].reps = RepFloor + k

(***************************************************************************)
(* C11.  For a %1RM-driven row (barbell, no literal load) with start p and *)
(* weekly step s = 0.02, a non-deload week w has pct = p + s x (w - 1),    *)
(* and the deload week d has pct = max(0.30, (p + s x (d - 1)) x 0.90):    *)
(* the deload reduction is applied to that week's progressed percentage,   *)
(* not to the week-1 base.                                                 *)
(***************************************************************************)
PctDriven == pg.style = "barbell" /\ pg.load = None /\ pg.pct # None

C11_DeloadOnProgressedPct ==
    PctDriven =>
        \A w \in 1..Len(pg.out) :
            LET progressed == Val(pg.pct) + PctStepMilli * (w - 1)
            IN  pg.out[w].pct =
                    IF IsDeloadWeek(w)
                    THEN Some(Max(300, RoundHalfEven(9 * progressed, 10)))
                    ELSE Some(progressed)

(***************************************************************************)
(* C12.  Every %1RM target the progression engine produces lies within     *)
(* [0, 1.0], for every template %1RM in [0, 1.0], every style and every    *)
(* week of the block.                                                      *)
(***************************************************************************)
C12_PctWithinUnit ==
    (pg.pct = None \/ (0 <= Val(pg.pct) /\ Val(pg.pct) <= 1000)) =>
        \A w \in 1..Len(pg.out) :
            pg.out[w].pct # None =>
                0 <= Val(pg.out[w].pct) /\ Val(pg.out[w].pct) <= 1000

(***************************************************************************)
(* C10.  For a template row that specifies a starting %1RM and no literal  *)
(* load, every week's target carries load_kg = e1RM x that week's %1RM     *)
(* rounded to the load increment (e1RM 88 kg, increment 2.5 kg: 0.70 gives *)
(* 62.5 kg); the load target is not left empty.                            *)
(***************************************************************************)
\* e1RM of the claim's example, in tenths of a kilogram.
ExampleE1rm == 88 * 10

\* x tenths of a kilogram times p thousandths, to the nearest multiple of the increment.
round_to_increment(x, p) ==
    LoadStepTenths * RoundHalfEven(x * p, 1000 * LoadStepTenths)

C10_PctRowsCarryLoad ==
    \A x \in sc_session_exercises :
        x.pct_1rm_target # None =>
            /\ x.load_kg_target # None
            /\ x.load_kg_target = Some(round_to_increment(ExampleE1rm, Val(x.pct_1rm_target)))

(***************************************************************************)
(* Claims about the estimator, read off the finished call.                 *)
(***************************************************************************)
Estimated == call.kind = "estimate"

\* The stored bands for the call's exercise, sex and metric that contain its age.
BandsContaining ==
    { i \in 1..Len(norm_strength_standards) :
        LET b == norm_strength_standards[i]
        IN  /\ b.exercise_id = call.args.exercise_id
            /\ b.sex = call.args.patient_sex
            /\ b.metric = call.args.metric
            /\ b.age_min <= call.args.patient_age
            /\ call.args.patient_age <= b.age_max }

NullEstimate ==
    call.result.estimated_1rm_kg = None /\ call.result.estimated_rel_1rm_bw = None

PositiveBodyweight ==
    call.args.patient_bw_kg # None /\ Val(call.args.patient_bw_kg) > 0

\* C13.  The estimator returns a null e1RM and a null ratio (a) for the pull-up
\* rep-count metric whatever the other inputs are, (b) whenever bodyweight is missing
\* or <= 0, (c) whenever no stored band for the exercise, sex and metric contains the
\* age.  Every call ends with a result record: none raises.
C13_NullPropagation ==
    Estimated =>
        ((\/ call.args.metric = "pullup_reps"
          \/ ~PositiveBodyweight
          \/ BandsContaining = {}) => NullEstimate)

\* A call with bodyweight 0 or below for which a band containing the age is stored.
C13_Witness ==
    /\ Estimated
    /\ call.args.metric = "rel_1rm_bw"
    /\ call.args.patient_bw_kg # None
    /\ Val(call.args.patient_bw_kg) <= 0
    /\ BandsContaining # {}
    /\ NullEstimate

\* The ratios the level rule allows for a band.  A level other than the four names in
\* lower case, or a missing one, takes the intermediate value; for a name in another
\* case ("Expert") either reading is allowed.
LevelRatios(b, level) ==
    LET inter == (b.fair + b.good) \div 2
        exp == (b.good + b.excellent) \div 2
    IN  IF level = None THEN { inter }
        ELSE IF Val(level) = "novice" THEN { b.fair }
        ELSE IF Val(level) = "intermediate" THEN { inter }
        ELSE IF Val(level) = "advanced" THEN { b.good }
        ELSE IF Val(level) = "expert" THEN { exp }
        ELSE IF Val(level) = "Expert" THEN { exp, inter }
        ELSE { inter }

\* C14.  When a band is found and bodyweight is positive, the ratio is fair for
\* novice, (fair + good) / 2 for intermediate, good for advanced, (good + excellent) / 2
\* for expert and the intermediate value for an unrecognized or missing level, and
\* estimated_1rm_kg is the ratio times the bodyweight.
C14_RatioByLevel ==
    (Estimated /\ call.args.metric = "rel_1rm_bw" /\ PositiveBodyweight
        /\ BandsContaining # {}) =>
        \E i \in BandsContaining :
            /\ call.result.estimated_rel_1rm_bw \in
                   { Some(r) : r \in LevelRatios(norm_strength_standards[i],
                                                 call.args.presumed_level) }
            /\ call.result.estimated_1rm_kg =
                   Some(Val(call.result.estimated_rel_1rm_bw) * Val(call.args.patient_bw_kg))

\* fair 1.00, good 1.20, intermediate, 80 kg: ratio 1.10 and 88.0 kg.
C14_Witness ==
    /\ Estimated
    /\ call.args.presumed_level = Some("intermediate")
    /\ call.args.patient_bw_kg = Some(800)
    /\ call.norm # None
    /\ Val(call.norm).fair = 10000 /\ Val(call.norm).good = 12000
    /\ call.result.estimated_rel_1rm_bw = Some(11000)
    /\ call.result.estimated_1rm_kg = Some(8800000)

\* The estimator's possible e1RMs on the present table for one level.
E1rmsAt(sex, age, bw, exercise_id, level) ==
    { r[3].estimated_1rm_kg :
        r \in estimate_e1rm_kg_for_exercise(norm_strength_standards, sex, age, bw,
                                            Some(level), exercise_id, "rel_1rm_bw") }

LevelOrder == << "novice", "intermediate", "advanced", "expert" >>

\* C15.  For any fixed exercise, sex, age and positive bodyweight for which a band is
\* stored, the estimates are ordered novice <= intermediate <= advanced <= expert,
\* whatever bands the store holds.
C15_LevelOrdering ==
    \A sex \in Sexes, age \in Ages, exercise_id \in NormExercises :
        LET bw == Some(800)
        IN  NormMatches(norm_strength_standards, exercise_id, sex, age, "rel_1rm_bw") # {} =>
                \A k \in 1..3 :
                    \A lo \in E1rmsAt(sex, age, bw, exercise_id, LevelOrder[k]),
                       hi \in E1rmsAt(sex, age, bw, exercise_id, LevelOrder[k + 1]) :
                        Val(lo) <= Val(hi)

\* C16.  The lookup returns, among the stored bands with the same exercise, sex and
\* metric whose ages contain the age, one with the highest age_min; it returns None
\* exactly when there is no such band, and never a band of another exercise, sex or
\* metric or one that does not contain the age.
C16_HighestAgeMin ==
    (Estimated /\ call.looked_up) =>
        /\ call.norm = None <=> BandsContaining = {}
        /\ call.norm # None =>
              /\ \E i \in BandsContaining : norm_strength_standards[i] = Val(call.norm)
              /\ \A j \in BandsContaining :
                    norm_strength_standards[j].age_min <= Val(call.norm).age_min

\* A lookup that had two bands to choose from, with different age_min.
C16_Witness ==
    /\ Estimated /\ call.looked_up /\ call.norm # None
    /\ \E j \in BandsContaining :
          norm_strength_standards[j].age_min < Val(call.norm).age_min

(***************************************************************************)
(* Claims about the unilateral scaler, read off the finished call.  The    *)
(* result is in thousandths of a kilogram, the input in tenths.            *)
(***************************************************************************)
Scaled == call.kind = "scale"

NamedLevels == { Some("novice"), Some("intermediate"), Some("advanced"), Some("expert") }

\* The fraction in hundredths for a level: lo, lo + 5, lo + 10, lo + 15.
FractionFrom(lo, name) ==
    IF name = "novice" THEN lo
    ELSE IF name = "intermediate" THEN lo + 5
    ELSE IF name = "advanced" THEN lo + 10
    ELSE lo + 15

SpecFraction(movement, level) ==
    IF movement \in { Some("bulgarian_split_squat"), Some("step_up") }
    THEN FractionFrom(35, Val(level))
    ELSE IF movement = Some("single_leg_rdl") THEN FractionFrom(30, Val(level))
    ELSE 35

\* C17.  The scaler returns null for a null e1RM, otherwise e1rm x fraction, the
\* fraction being 0.35 / 0.40 / 0.45 / 0.50 (novice / intermediate / advanced / expert)
\* for bulgarian_split_squat and step_up, 0.30 / 0.35 / 0.40 / 0.45 for single_leg_rdl
\* and 0.35 for any other movement key whatever the level.
C17_FractionBySpecKey ==
    (Scaled /\ call.args.presumed_level \in NamedLevels) =>
        IF call.args.bilateral_e1rm_kg = None THEN call.result = None
        ELSE call.result =
                 Some(Val(call.args.bilateral_e1rm_kg) *
                      SpecFraction(call.args.movement, call.args.presumed_level))

\* The level name the scaler goes by: the given one in lower case, intermediate when
\* it is missing, empty or none of the four.
LevelNameOf(level) ==
    IF level = Some("novice") THEN "novice"
    ELSE IF level = Some("advanced") THEN "advanced"
    ELSE IF level \in { Some("expert"), Some("Expert") } THEN "expert"
    ELSE "intermediate"

CodeFraction(movement, level) ==
    IF movement \in { Some("bss"), Some(" BSS "), Some("stepup") }
    THEN FractionFrom(35, LevelNameOf(level))
    ELSE IF movement = Some("sl_rdl") THEN FractionFrom(30, LevelNameOf(level))
    ELSE 35

\* C17, amended.  The scaler returns null for a null e1RM, otherwise e1rm x fraction,
\* the fraction being 0.35 / 0.40 / 0.45 / 0.50 for the keys bss and stepup,
\* 0.30 / 0.35 / 0.40 / 0.45 for the key sl_rdl (key and level compared in lower case,
\* the key without surrounding blanks; a missing or unrecognized level counts as
\* intermediate) and 0.35 for any other key, bulgarian_split_squat, step_up and
\* single_leg_rdl included, whatever the level.
C17_FractionByCodeKey ==
    Scaled =>
        IF call.args.bilateral_e1rm_kg = None THEN call.result = None
        ELSE call.result =
                 Some(Val(call.args.bilateral_e1rm_kg) *
                      CodeFraction(call.args.movement, call.args.presumed_level))

\* 88.0 kg scaled for sl_rdl at novice level: 0.30 of it.
C17_Witness ==
    /\ Scaled
    /\ call.args.bilateral_e1rm_kg = Some(880)
    /\ call.args.movement = Some("sl_rdl")
    /\ call.args.presumed_level = Some("novice")
    /\ call.result = Some(880 * 30)

\* C18.  For every non-null bilateral e1RM, every movement key and every level the
\* scaler's result is strictly less than the input.
C18_StrictlyLess ==
    (Scaled /\ call.args.bilateral_e1rm_kg # None) =>
        /\ call.result # None
        /\ Val(call.result) < 100 * Val(call.args.bilateral_e1rm_kg)

\* C18, amended.  For every positive bilateral e1RM, every movement key and every
\* level the scaler's result is strictly less than the input.
C18_StrictlyLessIfPositive ==
    (Scaled /\ call.args.bilateral_e1rm_kg # None /\ Val(call.args.bilateral_e1rm_kg) > 0) =>
        /\ call.result # None
        /\ Val(call.result) < 100 * Val(call.args.bilateral_e1rm_kg)

\* The largest fraction: 100.0 kg scaled for bss at expert level.
C18_Witness ==
    /\ Scaled
    /\ call.args.bilateral_e1rm_kg = Some(1000)
    /\ call.args.movement = Some("bss")
    /\ call.args.presumed_level = Some("expert")
    /\ call.result = Some(50000)

(***************************************************************************)
(* Claims about recorded actuals.                                          *)
(***************************************************************************)
SamePlanned(x, y) ==
    /\ x.id = y.id /\ x.session_id = y.session_id /\ x.exercise_id = y.exercise_id
    /\ x.sets_target = y.sets_target /\ x.reps_target = y.reps_target
    /\ x.pct_1rm_target = y.pct_1rm_target /\ x.load_kg_target = y.load_kg_target
    /\ x.rpe_target = y.rpe_target /\ x.rest_sec_target = y.rest_sec_target
    /\ x.intent = y.intent /\ x.notes = y.notes

\* C19.  A record_actual step changes only the named row's actual columns: that
\* row's planned fields and every other row, session, week and block are as before
\* (no row is added or removed, no planned value is recomputed).
C19_RecordActualFrame ==
    [][ act' # act =>
          /\ sc_blocks' = sc_blocks /\ sc_weeks' = sc_weeks /\ sc_sessions' = sc_sessions
          /\ Cardinality(sc_session_exercises') = Cardinality(sc_session_exercises)
          /\ \A x \in sc_session_exercises :
                \E y \in sc_session_exercises' :
                    /\ SamePlanned(x, y)
                    /\ x.id # act'["a1"].row_id => y = x ]_vars

\* An actual was recorded on one row of a session that holds other rows.
C19_Witness ==
    /\ act["a1"].pc = "returned"
    /\ \E x \in sc_session_exercises :
          /\ x.id = act["a1"].row_id
          /\ x.sets_actual = act["a1"].values.sets_actual
          /\ HasActual(x)
          /\ \E y \in sc_session_exercises :
                y.id # x.id /\ y.session_id = x.session_id /\ ~HasActual(y)

\* C20.  Negative values are rejected before any write, so no stored target or
\* actual value is ever negative.
C20_NoNegativeStored ==
    \A x \in sc_session_exercises :
        /\ x.sets_target >= 0 /\ x.reps_target >= 0
        /\ x.sets_actual # None => Val(x.sets_actual) >= 0
        /\ x.reps_actual # None => Val(x.reps_actual) >= 0
        /\ x.load_kg_actual # None => Val(x.load_kg_actual) >= 0

(***************************************************************************)
(* Claims about the norm table itself.                                     *)
(***************************************************************************)
SupportedAges == 18..65

SameNormKey(a, b) == a.exercise_id = b.exercise_id /\ a.sex = b.sex /\ a.metric = b.metric

\* C23.  In every reachable state of the store, for each (exercise, sex, metric) the
\* stored age bands are pairwise non-overlapping and together cover the supported age
\* range, and each band's thresholds satisfy poor < fair < good < excellent.
C23_NormTableInvariant ==
    \A i \in 1..Len(norm_strength_standards) :
        LET b == norm_strength_standards[i]
        IN  /\ b.poor < b.fair /\ b.fair < b.good /\ b.good < b.excellent
            /\ \A j \in 1..Len(norm_strength_standards) :
                  (j # i /\ SameNormKey(b, norm_strength_standards[j])) =>
                      \/ norm_strength_standards[j].age_max < b.age_min
                      \/ b.age_max < norm_strength_standards[j].age_min
            /\ \A age \in SupportedAges :
                  \E j \in 1..Len(norm_strength_standards) :
                      /\ SameNormKey(b, norm_strength_standards[j])
                      /\ norm_strength_standards[j].age_min <= age
                      /\ age <= norm_strength_standards[j].age_max

(***************************************************************************)
(* Claims about the style classification, read off the finished call.      *)
(***************************************************************************)
Classified == call.kind = "style"

IsometricWords == { "isometric", "wall sit", "plank" }

ImplementStyle(implement) ==
    IF implement \in { Some("dumbbell"), Some("kettlebell"), Some("band") } THEN "db_kb"
    ELSE IF implement = Some("barbell") THEN "barbell"
    ELSE IF implement = Some("bodyweight") THEN "bodyweight"
    ELSE "generic"

\* C24.  An exercise whose name or notes match the isometric rule (isometric, wall
\* sit, plank) is isometric whatever its category and implement; otherwise one of
\* category conditioning is conditioning whatever its implement; otherwise the
\* implement decides: dumbbell, kettlebell, band give db_kb, barbell gives barbell,
\* bodyweight gives bodyweight; anything else is generic.
C24_CascadeByCategory ==
    Classified =>
        call.result =
            IF (NeedlesIn(Some(call.args.name)) \cup NeedlesIn(call.args.notes))
                   \cap IsometricWords # {}
            THEN "isometric"
            ELSE IF call.args.category = Some("conditioning") THEN "conditioning"
            ELSE ImplementStyle(call.args.implement)

\* C24, amended.  An exercise with "isometric" in its name or notes, or "wall sit" or
\* "plank" in its name, is isometric whatever its category and implement; otherwise
\* one of category conditioning, or with "erg" in its name, is conditioning whatever
\* its implement; otherwise the implement decides as above; anything else is generic.
C24_CascadeByCategoryOrName ==
    Classified =>
        call.result =
            IF \/ "isometric" \in NeedlesIn(Some(call.args.name)) \cup NeedlesIn(call.args.notes)
               \/ NeedlesIn(Some(call.args.name)) \cap { "wall sit", "plank" } # {}
            THEN "isometric"
            ELSE IF \/ call.args.category = Some("conditioning")
                    \/ "erg" \in NeedlesIn(Some(call.args.name))
            THEN "conditioning"
            ELSE ImplementStyle(call.args.implement)

\* A conditioning-category exercise with a barbell: the category goes first.
C24_Witness ==
    /\ Classified
    /\ call.args.name = "Back Squat"
    /\ call.args.category = Some("conditioning")
    /\ call.args.implement = Some("barbell")
    /\ call.args.notes = None
    /\ call.result = "conditioning"

(***************************************************************************)
(* Claims about access, read off the steps of the *_for_user wrappers.     *)
(***************************************************************************)
dataTables ==
    << rides, weekly_plan, strava_tokens, strava_synced, patient_profile,
       strength_estimates >>

\* The caller has no access to the patient in the state the wrapper is called in.
Denied(user, patient_id) == ~_user_can_access_patient(user[1], user[2], patient_id)

PermissionDenied(r) == r.pc = "raised" /\ r.err = "PermissionError"

\* C21.  Every *_for_user wrapper that writes checks the caller's access to the owning
\* patient on each call; when access is not granted the call raises a permission
\* error and the store is as before.
C21_FailClosed ==
    [][ /\ (op' # op /\ Denied(op'.user, op'.patient_id)) =>
              /\ PermissionDenied(op')
              /\ UNCHANGED << storeVars, dataTables >>
        /\ \A c \in DOMAIN gen :
              (gen'[c] # gen[c] /\ Denied(gen'[c].args.user, gen'[c].args.patient_id)) =>
                  /\ PermissionDenied(gen'[c])
                  /\ UNCHANGED << storeVars, dataTables >>
        /\ \A u \in DOMAIN act :
              (/\ act'[u] # act[u]
               /\ _get_session_exercise_patient_id(act'[u].row_id) # None
               /\ Denied(act'[u].user,
                         Val(_get_session_exercise_patient_id(act'[u].row_id)))) =>
                  /\ PermissionDenied(act'[u])
                  /\ UNCHANGED << storeVars, dataTables >> ]_vars

\* A generation that lost its access after the block row was written, and a ride
\* refused.
C21_Witness ==
    /\ PermissionDenied(gen["g1"]) /\ gen["g1"].block_id # 0
    /\ PermissionDenied(op) /\ op.name = "add_ride" /\ op.patient_id = 1
    /\ rides = << >>

Owns(user, patient_id) ==
    patient_id \in DOMAIN patients /\ patients[patient_id].owner_user_id = Some(user[1])

\* C25.  A user with role super_admin who owns a patient passes the access check for
\* that patient: the block they ask for is created and the ride they log is stored.
C25_SuperAdminOwner ==
    /\ \A c \in DOMAIN gen :
          (gen[c].pc # "idle" /\ gen[c].args.user[2] = "super_admin"
             /\ Owns(gen[c].args.user, gen[c].args.patient_id)) =>
              gen[c].block_id # 0
    /\ (op.pc # "idle" /\ op.name = "add_ride" /\ op.user[2] = "super_admin"
           /\ Owns(op.user, op.patient_id)) =>
          op.pc = "returned"

CoachRoles == { "coach", "super_admin" }

\* C28.  Creating a block, week, session or target row, clearing a session's rows and
\* upserting a weekly plan succeed only for a caller of role coach or super_admin; a
\* client who has access to the patient gets a permission error and nothing is
\* written.  Recording actuals and adding rides need only access to the patient and
\* succeed for such a client.
C28_RoleGate ==
    [][ /\ \A c \in DOMAIN gen :
              gen'[c] # gen[c] =>
                  /\ storeVars' # storeVars => gen'[c].args.user[2] \in CoachRoles
                  /\ gen'[c].args.user[2] = "client" =>
                        PermissionDenied(gen'[c]) /\ UNCHANGED << storeVars, dataTables >>
        /\ (op' # op /\ op'.name = "upsert_week_plan") =>
              /\ weekly_plan' # weekly_plan => op'.user[2] \in CoachRoles
              /\ op'.user[2] = "client" =>
                    PermissionDenied(op') /\ UNCHANGED << storeVars, dataTables >>
        /\ (op' # op /\ op'.name = "add_ride" /\ op'.user[2] = "client"
               /\ ~Denied(op'.user, op'.patient_id)) =>
              op'.pc = "returned" /\ Len(rides') = Len(rides) + 1
        /\ \A u \in DOMAIN act :
              (/\ act'[u] # act[u]
               /\ act'[u].user[2] = "client"
               /\ _get_session_exercise_patient_id(act'[u].row_id) # None
               /\ ~Denied(act'[u].user,
                          Val(_get_session_exercise_patient_id(act'[u].row_id)))) =>
                  act'[u].pc = "returned" ]_vars

\* The owner as a client: refused a block and a weekly plan, while their actuals on a
\* row a coach generated were recorded.
C28_Witness ==
    /\ act["a1"].pc = "returned" /\ act["a1"].user = << "owner1", "client" >>
    /\ \E x \in sc_session_exercises : x.id = act["a1"].row_id /\ HasActual(x)
    /\ PermissionDenied(op) /\ op.name = "upsert_week_plan"
    /\ op.user = << "owner1", "client" >> /\ ~Denied(op.user, op.patient_id)

SamePair(x, y) == x.patient_id = y.patient_id /\ x.exercise_id = y.exercise_id

SaveReturned == op' # op /\ op'.pc = "returned" /\ op'.name = "upsert_strength_estimate"

\* C22.  strength_estimates holds at most one row per (patient, exercise); after a
\* save that row holds exactly the values of that save, and the rows of every other
\* pair are as before.  A call that does not return a save leaves the table alone.
C22_OneEstimatePerPair ==
    [][ /\ \A x, y \in strength_estimates' : SamePair(x, y) => x = y
        /\ SaveReturned =>
              /\ op'.args \in strength_estimates'
              /\ { x \in strength_estimates' : ~SamePair(x, op'.args) }
                     = { x \in strength_estimates : ~SamePair(x, op'.args) }
        /\ ~SaveReturned => UNCHANGED strength_estimates ]_vars

\* The save of the null estimate for (patient 1, exercise 4) has returned: it is the
\* only row of that pair, beside the row another pair got from another save.
C22_Witness ==
    /\ op.pc = "returned" /\ op.name = "upsert_strength_estimate"
    /\ op.args.patient_id = 1 /\ op.args.exercise_id = 4
    /\ op.args.estimated_1rm_kg = None
    /\ { x \in strength_estimates : SamePair(x, op.args) } = { op.args }
    /\ \E y \in strength_estimates : y.exercise_id = 5 /\ y.estimated_1rm_kg # None

\* The five actual columns of row x are the values v of a request.
ActualIs(x, v) ==
    /\ x.sets_actual = v.sets_actual
    /\ x.reps_actual = v.reps_actual
    /\ x.load_kg_actual = v.load_kg_actual
    /\ x.completed_flag = (IF v.completed_flag THEN 1 ELSE 0)
    /\ x.actual_notes = v.actual_notes

\* C29.  Recording actuals overwrites all five actual columns of the row with the
\* values of the request, a null clearing what was stored; the same request made
\* again changes nothing, so the last call decides what the row holds.
C29_FullOverwrite ==
    [][ \A u \in DOMAIN act :
          (act'[u] # act[u] /\ act'[u].pc = "returned") =>
              /\ \E x \in sc_session_exercises' : x.id = act'[u].row_id
              /\ \A x \in sc_session_exercises' :
                    x.id = act'[u].row_id => ActualIs(x, act'[u].values)
              /\ update_sc_session_exercise_actual(sc_session_exercises', act'[u].row_id,
                      act'[u].values.sets_actual, act'[u].values.reps_actual,
                      act'[u].values.load_kg_actual, act'[u].values.completed_flag,
                      act'[u].values.actual_notes) = sc_session_exercises' ]_vars

\* A request with null reps and notes and completed = false has returned, and the row
\* holds nulls and 0 there.
C29_Witness ==
    /\ act["a1"].pc = "returned" /\ act["a1"].values.reps_actual = None
    /\ \E x \in sc_session_exercises :
          /\ x.id = act["a1"].row_id
          /\ x.reps_actual = None /\ x.actual_notes = None /\ x.completed_flag = 0
          /\ x.sets_actual = act["a1"].values.sets_actual

\* C26.  Seeding is idempotent: when a run of seed() has ended, the exercises, the
\* rep schemes and the norm standards are the rows the first run left, however many
\* runs there have been.
C26_SeedIdempotent ==
    SeedEnded =>
        /\ exercises_table = seed_exercises(<< >>)
        /\ rep_schemes = seed_rep_schemes(<< >>)
        /\ norm_strength_standards = SeededNorms

\* The second run has ended.
C26_Witness ==
    /\ SeedEnded /\ call.args.run = 2
    /\ Len(exercises_table) = 5 /\ Len(rep_schemes) = 4
    /\ Len(norm_strength_standards) = Len(SeededNorms)

\* The block a session of the given tables belongs to.
BlockOfSession(weeks, sessions, j) == weeks[sessions[j].week_id].block_id

\* The rows of the given tables that belong to a block other than b.
RowsOutside(weeks, sessions, rows, b) ==
    { x \in rows : BlockOfSession(weeks, sessions, x.session_id) # b }

\* C27.  Whatever the order in which the store calls of several create_sc_block
\* requests are made, a call of a request adds rows only under that request's own
\* block: the blocks there were, and the weeks, sessions, targets and actuals of
\* every other block, are as before.
C27_BlockIsolation ==
    [][ \A c \in DOMAIN gen :
          gen'[c] # gen[c] =>
              LET b == gen'[c].block_id
              IN  /\ \A i \in 1..Len(sc_blocks) : sc_blocks'[i] = sc_blocks[i]
                  /\ \A i \in (Len(sc_blocks) + 1)..Len(sc_blocks') : i = b
                  /\ \A i \in 1..Len(sc_weeks) :
                        sc_weeks[i].block_id # b => sc_weeks'[i] = sc_weeks[i]
                  /\ \A i \in (Len(sc_weeks) + 1)..Len(sc_weeks') :
                        sc_weeks'[i].block_id = b
                  /\ \A j \in 1..Len(sc_sessions) :
                        BlockOfSession(sc_weeks, sc_sessions, j) # b =>
                            sc_sessions'[j] = sc_sessions[j]
                  /\ \A j \in (Len(sc_sessions) + 1)..Len(sc_sessions') :
                        BlockOfSession(sc_weeks', sc_sessions', j) = b
                  /\ RowsOutside(sc_weeks', sc_sessions', sc_session_exercises', b)
                        = RowsOutside(sc_weeks, sc_sessions, sc_session_exercises, b) ]_vars

\* Two requests have both returned after interleaved calls: block 2 got its week
\* before block 1 did, and a row of block 1 carries actuals.
C27_Witness ==
    /\ gen["g1"].pc = "returned" /\ gen["g2"].pc = "returned"
    /\ gen["g1"].block_id = 1 /\ gen["g2"].block_id = 2
    /\ gen["g2"].week_id < gen["g1"].week_id
    /\ \E x \in sc_session_exercises :
          BlockOfSession(sc_weeks, sc_sessions, x.session_id) = 1 /\ HasActual(x)

\* The ride rows patient 1 got from activity a of the feed.
RidesOf(a) ==
    { k \in 1..Len(rides) :
        rides[k].patient_id = 1 /\ rides[k].notes = Some(<< "[Strava]", a.name >>) }

\* Every run made so far has returned, and there is one.
RunsCompleted ==
    /\ \A r \in SyncRuns : sync[r].pc \in { "idle", "returned" }
    /\ \E r \in SyncRuns : sync[r].pc = "returned"

RECURSIVE Imported(_)
Imported(runs) ==
    IF runs = {} THEN 0
    ELSE LET r == CHOOSE q \in runs : TRUE
         IN  sync[r].imported + Imported(runs \ { r })

\* C30.  After any sequence of completed sync_strava_rides runs for a patient, each
\* activity of a ride sport has exactly one ride row of that patient and is marked
\* synced, an activity of another sport has none, and the counts the runs returned
\* add up to the ride rows they added.
C30_ImportAtMostOnce ==
    RunsCompleted =>
        /\ \A i \in 1..Len(StravaFeed) :
              IF StravaFeed[i].sport_type \in RideSports
              THEN /\ Cardinality(RidesOf(StravaFeed[i])) = 1
                   /\ is_activity_synced(strava_synced, 1, StravaFeed[i].id)
              ELSE /\ RidesOf(StravaFeed[i]) = {}
                   /\ ~is_activity_synced(strava_synced, 1, StravaFeed[i].id)
        /\ Imported(SyncRuns) = Len(rides)

\* Two runs have returned: one imported both rides, the other none.
C30_Witness ==
    /\ \A r \in SyncRuns : sync[r].pc = "returned"
    /\ \E r \in SyncRuns : sync[r].imported = 2
    /\ \E r \in SyncRuns : sync[r].imported = 0
    /\ Len(rides) = 2
    /\ rides[1].distance_km = 425 /\ rides[1].duration_min = 96

====
